---- MODULE Spec2Model ----
(***************************************************************************)
(* Model of the observability package of Autherain/golang_arxiv            *)
(* (src/unnamed/part_006, the version with enableTelemetry, lazy counters  *)
(* and TraceMiddleware, lines 272-611) together with the start-up code of  *)
(* cmd/api (src/unnamed/part_002).                                         *)
(*                                                                         *)
(* The package keeps its state in package-level variables: tracer, meter,  *)
(* the three instrument maps and lastKnownValues.  None of them is         *)
(* protected by a lock, so every exported function is modelled as a        *)
(* sequence of steps of the calling goroutine, one step per access to      *)
(* shared state.  A goroutine whose pc names a map access is inside that   *)
(* access: the step that leaves the pc completes it.  What a call returns  *)
(* (and logs) is kept in last, and the result before it in prev.           *)
(*                                                                         *)
(* The OpenTelemetry meter is a library outside the repository.  It is     *)
(* modelled as an allocator of instrument handles: every successful        *)
(* meter.Int64Counter / Float64Histogram / Float64UpDownCounter call       *)
(* yields a new handle, and a call may fail with an error.                 *)
(*                                                                         *)
(* Gauge and histogram values are float64 in the code.  The model keeps    *)
(* the rounding of float64 arithmetic on integers, with a significand of   *)
(* MantissaBits bits where float64 has 53: an integer that needs more bits *)
(* is rounded to the nearest representable one, ties to even.              *)
(***************************************************************************)
EXTENDS Integers, Sequences, FiniteSets

\* ------------------------------------------------------------------ bounds
NumGoroutines == 2      \* goroutines calling into the package
MaxCalls      == 3      \* calls into the package made after start-up
MaxVal        == 2      \* largest small value or delta passed by a caller
MantissaBits  == 3      \* bits of the significand of a float (53 in float64)
MaxRequests   == 2      \* requests served through TraceMiddleware
MaxWrites     == 2      \* calls a handler makes on its ResponseWriter
MaxTicks      == 2      \* ticks the Sampler's ticker delivers
GCBits        == 2      \* width of the GC-cycle count (32 in runtime.MemStats)
MaxLen        == 2      \* runes of a request's method and of its path

Goroutines == 1..NumGoroutines

\* ------------------------------------------------------------- float64
RECURSIVE Pow2(_)
Pow2(n) == IF n = 0 THEN 1 ELSE 2 * Pow2(n - 1)

Abs(x) == IF x < 0 THEN -x ELSE x

\* The weight of the last bit of the significand of a float holding the
\* integer a >= 0: the least power of two e, from e on, with a / e below
\* 2^MantissaBits.
RECURSIVE UlpFrom(_, _)
UlpFrom(a, e) ==
  IF a \div e < Pow2(MantissaBits) THEN e ELSE UlpFrom(a, 2 * e)

\* The float64 result of an operation whose exact result is the integer x:
\* x rounded to MantissaBits significant bits, to nearest, ties to even.
Float64(x) ==
  LET a == Abs(x)
      e == UlpFrom(a, 1)
      q == a \div e
      r == a % e
      m == IF 2 * r > e \/ (2 * r = e /\ q % 2 = 1) THEN (q + 1) * e
           ELSE q * e
  IN IF x < 0 THEN -m ELSE m

\* The integers from 0 on which float64 subtraction and addition are exact
\* end at 2^MantissaBits.
ExactValue(v) == v >= 0 /\ v <= Pow2(MantissaBits)

\* A float64 two binades further up: next to it, a small value is below
\* half the weight of the last bit.
BigValue == Pow2(MantissaBits + 1)

\* values passed to SetGauge
Values == (0..MaxVal) \cup {BigValue}
\* deltas passed to IncrementCounter
Deltas == 1..MaxVal

\* ------------------------------------------------------- names and kinds
\* metricsToCreate without its GC-run counter.
metricsToCreateWithoutGC ==
  << [name |-> "memory_alloc_bytes",            metricType |-> "gauge"],
     [name |-> "memory_total_alloc_bytes",      metricType |-> "gauge"],
     [name |-> "memory_sys_bytes",              metricType |-> "gauge"],
     [name |-> "num_goroutines",                metricType |-> "gauge"],
     [name |-> "num_cpu",                       metricType |-> "gauge"],
     [name |-> "http_request_duration_seconds", metricType |-> "histogram"],
     [name |-> "http_requests_total",           metricType |-> "counter"] >>

\* metricsToCreate of createMetrics, in source order.
metricsToCreate ==
  << [name |-> "memory_alloc_bytes",            metricType |-> "gauge"],
     [name |-> "memory_total_alloc_bytes",      metricType |-> "gauge"],
     [name |-> "memory_sys_bytes",              metricType |-> "gauge"],
     [name |-> "num_goroutines",                metricType |-> "gauge"],
     [name |-> "num_cpu",                       metricType |-> "gauge"],
     [name |-> "gc_runs_total",                 metricType |-> "counter"],
     [name |-> "http_request_duration_seconds", metricType |-> "histogram"],
     [name |-> "http_requests_total",           metricType |-> "counter"] >>

\* A per-route counter name as TraceMiddleware builds it; never declared at
\* start-up.
DynamicName == "http_requests_get__v1_healthcheck"

\* The names callers pass in the model: a built-in gauge and a name that
\* start-up does not declare.
CallNames == {"memory_alloc_bytes", DynamicName}

Kinds == {"counter", "histogram", "gauge"}

CreateOps == {"CreateCounter", "CreateDynamicCounter", "CreateHistogram",
              "CreateGauge"}
NamedOps  == CreateOps \cup {"IncrementCounter", "RecordHistogram", "SetGauge"}

\* The instrument kind an operation works on.
KindOf(o) ==
  CASE o \in {"CreateCounter", "CreateDynamicCounter", "IncrementCounter"}
         -> "counter"
    [] o \in {"CreateHistogram", "RecordHistogram"} -> "histogram"
    [] OTHER -> "gauge"

\* The first statement of each exported function.
EntryPc(o) ==
  CASE o \in {"CreateCounter", "CreateHistogram", "CreateGauge"} -> "cc_read"
    [] o \in {"CreateDynamicCounter", "IncrementCounter"}        -> "dc_read"
    [] o = "RecordHistogram"                                     -> "rh_read"
    [] OTHER                                                     -> "sg_read"

\* ------------------------------------------------------------- Go maps
\* A Go map is a function whose domain is the set of keys present.
EmptyMap == << >>
\* A lookup that never finds the key.
MapHasNever(m, k) == FALSE

\* _, exists := m[k]
MapHas(m, k) == k \in DOMAIN m
MapPut(m, k, v) ==
  [x \in (DOMAIN m) \cup {k} |-> IF x = k THEN v ELSE m[x]]
\* m[k] on a map of numbers: the zero value when the key is absent.
MapGetOrZero(m, k) == IF k \in DOMAIN m THEN m[k] ELSE 0

VARIABLES
  tracer,           \* package variable tracer: "nil" or "sdk"
  meter,            \* package variable meter:  "nil" or "sdk"
  counters,         \* map name -> handle of an Int64Counter
  histograms,       \* map name -> handle of a Float64Histogram
  gauges,           \* map name -> handle of a Float64UpDownCounter
  lastKnownValues,  \* map name -> last value passed to SetGauge
  instruments,      \* the instruments the meter created, by handle
  shutdown,         \* what InitTelemetry returned: "nil", "noop", "real"
  initErr,          \* the error InitTelemetry returned, "none" if nil
  samplers,         \* number of updateSystemMetrics goroutines launched
  gr,               \* per goroutine: position, arguments and locals
  last,             \* what the call that returned most recently returned
  prev,             \* what the call that returned before it returned
  spans,            \* per goroutine: the span carried by its context
  calls,            \* number of calls made so far
  inexact,          \* SetGauge was passed a value that is no ExactValue
  req,              \* per goroutine: the request TraceMiddleware is serving
  reqs,             \* requests started, handled and completed so far
  samp,             \* the goroutine running updateSystemMetrics
  signal,           \* its ticker channel and the Done channel of its context
  teardown,         \* main's deferred call of the shutdown function
  route,            \* method, path and per-route counter name of a request
  crashed           \* the Go runtime stopped the process (fatal error)

vars == << tracer, meter, counters, histograms, gauges, lastKnownValues,
           instruments, shutdown, initErr, samplers, gr, last, prev,
           spans, calls, inexact, req, reqs, samp, signal, teardown,
           route, crashed >>

registry == << counters, histograms, gauges, lastKnownValues, instruments >>
process  == << tracer, meter, shutdown, initErr, samplers >>
returned == << last, prev >>
http     == << req, reqs >>
background == << samp, signal, teardown, route >>


\* ------------------------------------------------------------ the meter
\* meter.Int64Counter / Float64Histogram / Float64UpDownCounter succeeding:
\* a new instrument, whose handle is its index in instruments.
MeterNew(insts, k, n) ==
  Append(insts, [kind |-> k, name |-> n, sum |-> 0, count |-> 0,
                 series |-> EmptyMap])

\* counter.Add / histogram.Record / gauge.Add on the instrument with handle h.
\* The sum of an Int64Counter is an int64, the others' sums are float64.
Record(insts, h, v) ==
  [insts EXCEPT ![h] =
     [@ EXCEPT !.sum = IF insts[h].kind = "counter" THEN @ + v
                       ELSE Float64(@ + v),
               !.count = @ + 1]]

\* An up-down counter that adds every delta to the series without
\* attributes.
AddToSeriesUnlabelled(insts, h, attrs, v) ==
  [insts EXCEPT ![h].series =
     MapPut(@, "", Float64(MapGetOrZero(@, "") + v))]

\* gauge.Add(ctx, v, metric.WithAttributes(attrs...)): the instrument keeps
\* one float64 series per attribute set and adds v to the series of attrs.
AddToSeries(insts, h, attrs, v) ==
  [insts EXCEPT ![h].series =
     MapPut(@, attrs, Float64(MapGetOrZero(@, attrs) + v))]

\* SetGauge adding the new value instead of its difference to the last one.
GaugeDiffAbsolute(value, current) == value

\* diff := value - current (SetGauge).
GaugeDiff(value, current) == Float64(value - current)

\* ----------------------------------------------------------- start-up
\* The instrument state createMetrics works on.
RegistryState ==
  [counters |-> counters, histograms |-> histograms, gauges |-> gauges,
   instruments |-> instruments, err |-> FALSE]

MapOfKind(st, k) ==
  CASE k = "counter"   -> st.counters
    [] k = "histogram" -> st.histograms
    [] OTHER           -> st.gauges

\* CreateCounter / CreateHistogram / CreateGauge run by one goroutine with
\* no other goroutine alive (start-up): look the name up, else ask the
\* meter, which fails when fails is TRUE, and store the new instrument.
Create(st, k, n, fails) ==
  IF MapHas(MapOfKind(st, k), n) THEN st
  ELSE IF fails THEN [st EXCEPT !.err = TRUE]
  ELSE LET h == Len(st.instruments) + 1
           insts == MeterNew(st.instruments, k, n)
       IN CASE k = "counter" ->
                 [st EXCEPT !.counters = MapPut(@, n, h), !.instruments = insts]
            [] k = "histogram" ->
                 [st EXCEPT !.histograms = MapPut(@, n, h), !.instruments = insts]
            [] OTHER ->
                 [st EXCEPT !.gauges = MapPut(@, n, h), !.instruments = insts]

\* createMetrics: the loop over metricsToCreate from entry i on; the meter
\* fails at entry failAt (0: nowhere).  Stops at the first error.
RECURSIVE createMetricsFrom(_, _, _)
createMetricsFrom(i, st, failAt) ==
  IF i > Len(metricsToCreate) THEN st
  ELSE LET m == metricsToCreate[i]
           next == Create(st, m.metricType, m.name, i = failAt)
       IN IF next.err THEN next ELSE createMetricsFrom(i + 1, next, failAt)

createMetrics(failAt) == createMetricsFrom(1, RegistryState, failAt)

\* Where an enabled InitTelemetry can fail: the resource, one of the two
\* exporters, or createMetrics (at the built-in instrument failMetric).
InitFailPoints ==
  {"none", "resource", "traceExporter", "metricExporter", "metrics"}

\* InitTelemetry has not been called yet.
NotStarted == shutdown = "nil" /\ initErr = "none"

\* main: InitTelemetry returned without error, app.serve() is running.
Serving == shutdown # "nil" /\ ~crashed

\* ------------------------------------------------------- initial state
\* A goroutine that is in no call.
IdleGoroutine ==
  [pc |-> "idle", op |-> "none", name |-> "", arg |-> 0, attrs |-> "",
   inst |-> 0, current |-> 0, err |-> FALSE, logged |-> "none",
   asked |-> FALSE]

\* What a returned call leaves with its caller: the call, the instrument
\* and error it returned, what it logged and whether it asked the meter.
ResultOf(r) ==
  [op |-> r.op, name |-> r.name, arg |-> r.arg, attrs |-> r.attrs,
   inst |-> r.inst, err |-> r.err, logged |-> r.logged, asked |-> r.asked]

NoResult == ResultOf(IdleGoroutine)

\* A goroutine's tracing state: ctx is the span its context carries ("none"
\* or "recording"), span the span object StartSpan returned to it last
\* ("none" before the first StartSpan, "noop" or "recording"), events and
\* attrs what the recording span was given, ended whether it was ended.
NoSpan ==
  [ctx |-> "none", span |-> "none", events |-> 0, attrs |-> 0,
   ended |-> FALSE]

\* http.StatusOK, and the status codes handlers write in the model.
StatusOK    == 200
StatusCodes == {StatusOK, 404, 500}

\* A goroutine of the HTTP server that serves no request.  Of a request:
\* stage is where TraceMiddleware is, statusCode the field of its
\* customResponseWriter, handlerOps the calls the wrapped handler made on
\* the writer it was given (a status code for WriteHeader, 0 for Write),
\* forwarded the calls that reached the underlying ResponseWriter, sent the
\* status the underlying writer sent to the client (0: none yet),
\* spanStatus the http.status_code attribute given to a recording span,
\* labels the status in the metric labels (0: not set) and trail the calls
\* the middleware made for the request so far.
NoRequest ==
  [stage |-> "none", statusCode |-> 0, handlerOps |-> << >>,
   forwarded |-> << >>, sent |-> 0, spanStatus |-> 0, labels |-> 0,
   trail |-> << >>, raised |-> "none", propagated |-> "none",
   method |-> << >>, path |-> << >>]

\* No goroutine runs updateSystemMetrics.  Of the Sampler: pc is "select"
\* (blocked in the select of its loop), "sampling" (in the tick branch) or
\* "stopped" (returned); ctx is the context it was given, ticker its
\* time.Ticker, step the statement of the tick branch it is at, NumGC the
\* m.NumGC it read and lastNumGC its local variable; after counts the ticks
\* it received once its context was cancelled, received all the ticks it
\* received, and cycles the GC cycles the runtime had completed at the
\* latest ReadMemStats, of which m.NumGC holds the low bits.
NoSampler ==
  [pc |-> "none", ctx |-> "none", ticker |-> "none", step |-> 0,
   NumGC |-> 0, lastNumGC |-> 0, after |-> 0, received |-> 0, cycles |-> 0]

\* The 5*time.Second of the shutdown closure, in seconds.
ShutdownTimeout == 5

\* The shutdown function has not been called.  Of a call: pc is "tracer"
\* (in tp.Shutdown), "meter" (in mp.Shutdown) or "returned"; reachable
\* tells whether the exporters' endpoints answer; invoked lists the
\* providers whose Shutdown was called, logged the log.Printf lines
\* written, tpTime and mpTime the seconds each Shutdown took.
NoTeardown ==
  [pc |-> "none", reachable |-> TRUE, invoked |-> << >>, logged |-> << >>,
   tpTime |-> 0, mpTime |-> 0]

\* The package after its var block ran and before main calls InitTelemetry.
Init ==
  /\ tracer = "nil"
  /\ meter = "nil"
  /\ counters = EmptyMap
  /\ histograms = EmptyMap
  /\ gauges = EmptyMap
  /\ lastKnownValues = EmptyMap
  /\ instruments = << >>
  /\ shutdown = "nil"
  /\ initErr = "none"
  /\ samplers = 0
  /\ gr = [g \in Goroutines |-> IdleGoroutine]
  /\ last = NoResult
  /\ prev = NoResult
  /\ spans = [g \in Goroutines |-> NoSpan]
  /\ calls = 0
  /\ inexact = FALSE
  /\ req = [g \in Goroutines |-> NoRequest]
  /\ reqs = [started |-> 0, handled |-> 0, completed |-> 0,
             served |-> << >>]
  /\ samp = NoSampler
  /\ teardown = NoTeardown
  /\ route = [method |-> << >>, path |-> << >>, counter |-> << >>]
  /\ signal = [tick |-> FALSE, late |-> FALSE, ticks |-> 0, done |-> FALSE]
  /\ crashed = FALSE

\* if !enableTelemetry { ...; return func() {}, nil }, with a sampler
\* launched on the way.
InitDisabledLaunching ==
  /\ shutdown' = "noop"
  /\ samplers' = samplers + 1
  /\ UNCHANGED << tracer, meter, counters, histograms, gauges, instruments,
                  initErr >>

\* if !enableTelemetry { ...; return func() {}, nil }: the no-op providers
\* are installed globally and nothing else is touched.
InitDisabled ==
  /\ shutdown' = "noop"
  /\ UNCHANGED << tracer, meter, counters, histograms, gauges, instruments,
                  initErr, samplers >>

\* The end of an enabled InitTelemetry with the sampler launched before
\* the result of createMetrics is looked at.
InitFinishLaunchFirst(err) ==
  /\ samplers' = samplers + 1
  /\ IF err
       THEN initErr' = "metrics" /\ UNCHANGED shutdown
       ELSE shutdown' = "real" /\ UNCHANGED initErr

\* The end of an enabled InitTelemetry: createMetrics returned err; on an
\* error (nil, wrapped error) is returned, else the sampler is launched and
\* the shutdown closure returned.
InitFinish(err) ==
  IF err
    THEN /\ initErr' = "metrics"
         /\ UNCHANGED << shutdown, samplers >>
    ELSE /\ shutdown' = "real"
         /\ samplers' = samplers + 1
         /\ UNCHANGED initErr

\* InitTelemetry(..., enableTelemetry), called once by main.  failAt is the
\* construction step that fails, failMetric the entry of metricsToCreate at
\* which createMetrics fails when failAt is "metrics".  A disabled call
\* installs the no-op providers globally and leaves the package variables
\* tracer and meter untouched.  An enabled call assigns tracer before the
\* metric exporter is built and meter before createMetrics runs, and
\* launches the sampler only after createMetrics succeeded.
InitTelemetry(enableTelemetry, failAt, failMetric) ==
  /\ NotStarted
  /\ failAt # "metrics" => failMetric = 1
  /\ UNCHANGED << lastKnownValues, gr, returned, spans, calls, inexact, http,
                  background, crashed >>
  /\ IF ~enableTelemetry
       THEN /\ failAt = "none"
            /\ InitDisabled
       ELSE IF failAt \in {"resource", "traceExporter"}
       THEN /\ initErr' = failAt
            /\ UNCHANGED << tracer, meter, counters, histograms, gauges,
                            instruments, shutdown, samplers >>
       ELSE IF failAt = "metricExporter"
       THEN /\ tracer' = "sdk"
            /\ initErr' = failAt
            /\ UNCHANGED << meter, counters, histograms, gauges,
                            instruments, shutdown, samplers >>
       ELSE LET st == createMetrics(IF failAt = "none" THEN 0 ELSE failMetric)
            IN /\ tracer' = "sdk"
               /\ meter' = "sdk"
               /\ counters' = st.counters
               /\ histograms' = st.histograms
               /\ gauges' = st.gauges
               /\ instruments' = st.instruments
               /\ InitFinish(st.err)

\* ------------------------------------------------ calls by goroutines
\* The three maps by kind, as the goroutine steps read and write them.
MapOf(k) ==
  CASE k = "counter"   -> counters
    [] k = "histogram" -> histograms
    [] OTHER           -> gauges

\* A goroutine enters one of the exported functions that take a name.
Invoke(g, o, n, v) ==
  /\ Serving
  /\ calls < MaxCalls
  /\ gr[g].pc = "idle"
  /\ gr' = [gr EXCEPT ![g] =
              [IdleGoroutine EXCEPT !.pc = EntryPc(o), !.op = o, !.name = n,
                                    !.arg = v]]
  /\ calls' = calls + 1
  /\ inexact' = (inexact \/ (o = "SetGauge" /\ ~ExactValue(v)))
  /\ UNCHANGED << registry, process, returned, spans, http, background,
                  crashed >>

\* Goroutine g calls SetGauge(ctx, n, v, attrs...), attrs being the
\* attribute set a.
InvokeLabelled(g, n, v, a) ==
  /\ Serving
  /\ calls < MaxCalls
  /\ gr[g].pc = "idle"
  /\ gr' = [gr EXCEPT ![g] =
              [IdleGoroutine EXCEPT !.pc = EntryPc("SetGauge"),
                                    !.op = "SetGauge", !.name = n,
                                    !.arg = v, !.attrs = a]]
  /\ calls' = calls + 1
  /\ inexact' = (inexact \/ ~ExactValue(v))
  /\ UNCHANGED << registry, process, returned, spans, http, background,
                  crashed >>

\* Goroutine g goes on as r says: when r is at "idle" the call returns to
\* its caller, who is left with its result.
Continue(g, r) ==
  IF r.pc = "idle"
    THEN /\ gr' = [gr EXCEPT ![g] = IdleGoroutine]
         /\ last' = ResultOf(r)
         /\ prev' = last
    ELSE /\ gr' = [gr EXCEPT ![g] = r]
         /\ UNCHANGED returned

\* Return of CreateDynamicCounter / CreateCounter with instrument h to its
\* caller: IncrementCounter goes on to counter.Add, a direct call is over.
ReturnInstrument(r, h) ==
  [r EXCEPT !.inst = h,
            !.pc = IF r.op = "IncrementCounter" THEN "ic_add" ELSE "idle"]

\* IncrementCounter logging the warning without returning: it goes on to
\* counter.Add with the nil counter.
IncrementCounterNoReturn(r) ==
  [r EXCEPT !.pc = "ic_add", !.logged = "counter_create_failed"]

\* if err != nil in IncrementCounter: log the warning and return.
IncrementCounterOnErr(r) ==
  [r EXCEPT !.pc = "idle", !.logged = "counter_create_failed"]

\* Return of CreateCounter / CreateHistogram / CreateGauge with (nil, err).
ReturnError(r) ==
  IF r.op = "IncrementCounter" THEN IncrementCounterOnErr(r)
  ELSE [r EXCEPT !.pc = "idle", !.err = TRUE]

\* A get-or-create that skips the lookup and always asks the meter.
AlwaysCreate(r, m) == [r EXCEPT !.pc = "cc_meter"]

\* if counter, exists := counters[name]; exists { return counter, nil }
\* at the head of CreateCounter, CreateHistogram and CreateGauge (on m).
LookupOrCreate(r, m) ==
  IF MapHas(m, r.name) THEN ReturnInstrument(r, m[r.name])
  ELSE [r EXCEPT !.pc = "cc_meter"]

\* CreateDynamicCounter: if counter, exists := counters[name]; exists
\* return it, else call CreateCounter.
DynamicLookup(g) ==
  /\ ~crashed
  /\ gr[g].pc = "dc_read"
  /\ Continue(g, IF MapHas(counters, gr[g].name)
                   THEN ReturnInstrument(gr[g], counters[gr[g].name])
                   ELSE [gr[g] EXCEPT !.pc = "cc_read"])
  /\ UNCHANGED << registry, process, spans, calls, inexact, http, background,
                  crashed >>

\* CreateCounter / CreateHistogram / CreateGauge: the lookup at its head.
CreateLookup(g) ==
  /\ ~crashed
  /\ gr[g].pc = "cc_read"
  /\ Continue(g, LookupOrCreate(gr[g], MapOf(KindOf(gr[g].op))))
  /\ UNCHANGED << registry, process, spans, calls, inexact, http, background,
                  crashed >>

\* meter.Int64Counter(...) and its siblings.  Calling a method of the nil
\* interface value panics; otherwise the meter returns an error or a new
\* instrument, which the goroutine is about to store.
MeterCreate(g, fails) ==
  /\ ~crashed
  /\ gr[g].pc = "cc_meter"
  /\ IF meter = "nil"
       THEN /\ ~fails
            /\ gr' = [gr EXCEPT ![g].pc = "panicked"]
            /\ UNCHANGED << instruments, returned >>
       ELSE IF fails
       THEN /\ Continue(g, ReturnError([gr[g] EXCEPT !.asked = TRUE]))
            /\ UNCHANGED instruments
       ELSE /\ instruments' =
                 MeterNew(instruments, KindOf(gr[g].op), gr[g].name)
            /\ gr' = [gr EXCEPT ![g].asked = TRUE,
                                ![g].inst = Len(instruments) + 1,
                                ![g].pc = "cc_write"]
            /\ UNCHANGED returned
  /\ UNCHANGED << counters, histograms, gauges, lastKnownValues, process,
                  spans, calls, inexact, http, background, crashed >>

\* counters[name] = counter (or histograms / gauges); return counter, nil.
CreateStore(g) ==
  /\ ~crashed
  /\ gr[g].pc = "cc_write"
  /\ LET k == KindOf(gr[g].op)
         n == gr[g].name
         h == gr[g].inst
     IN /\ counters' = IF k = "counter" THEN MapPut(counters, n, h)
                       ELSE counters
        /\ histograms' = IF k = "histogram" THEN MapPut(histograms, n, h)
                         ELSE histograms
        /\ gauges' = IF k = "gauge" THEN MapPut(gauges, n, h) ELSE gauges
        /\ Continue(g, ReturnInstrument(gr[g], h))
  /\ UNCHANGED << lastKnownValues, instruments, process, spans, calls,
                  inexact, http, background, crashed >>

\* counter.Add(ctx, value, ...) at the end of IncrementCounter; on a nil
\* counter the method call panics.
CounterAdd(g) ==
  /\ ~crashed
  /\ gr[g].pc = "ic_add"
  /\ IF gr[g].inst = 0
       THEN /\ gr' = [gr EXCEPT ![g].pc = "panicked"]
            /\ UNCHANGED << instruments, returned >>
       ELSE /\ instruments' = Record(instruments, gr[g].inst, gr[g].arg)
            /\ Continue(g, [gr[g] EXCEPT !.pc = "idle"])
  /\ UNCHANGED << counters, histograms, gauges, lastKnownValues, process,
                  spans, calls, inexact, http, background, crashed >>

\* counter.Add(ctx, value, ...) with a negative value, which the API of the
\* instrument leaves to the implementation: the other outcome of the call
\* is that the value is dropped.
CounterAddDropped(g) ==
  /\ ~crashed
  /\ gr[g].pc = "ic_add"
  /\ gr[g].inst # 0
  /\ gr[g].arg < 0
  /\ Continue(g, [gr[g] EXCEPT !.pc = "idle"])
  /\ UNCHANGED << registry, process, spans, calls, inexact, http, background,
                  crashed >>

\* RecordHistogram returning without the warning.
HistogramNotFoundSilent(r) == [r EXCEPT !.pc = "idle"]

\* else { log.Printf("Warning: Histogram '%s' not found", name) }
HistogramNotFound(r) ==
  [r EXCEPT !.logged = "histogram_not_found", !.pc = "idle"]

\* RecordHistogram: if histogram, exists := histograms[name]; exists ...
\* else log.Printf("Warning: Histogram '%s' not found").
HistogramLookup(g) ==
  /\ ~crashed
  /\ gr[g].pc = "rh_read"
  /\ Continue(g, IF MapHas(histograms, gr[g].name)
                   THEN [gr[g] EXCEPT !.inst = histograms[gr[g].name],
                                      !.pc = "rh_record"]
                   ELSE HistogramNotFound(gr[g]))
  /\ UNCHANGED << registry, process, spans, calls, inexact, http, background,
                  crashed >>

\* histogram.Record(ctx, value, ...).
HistogramRecord(g) ==
  /\ ~crashed
  /\ gr[g].pc = "rh_record"
  /\ instruments' = Record(instruments, gr[g].inst, gr[g].arg)
  /\ Continue(g, [gr[g] EXCEPT !.pc = "idle"])
  /\ UNCHANGED << counters, histograms, gauges, lastKnownValues, process,
                  spans, calls, inexact, http, background, crashed >>

\* SetGauge: if gauge, exists := gauges[name]; exists { ... }.
GaugeLookup(g) ==
  /\ ~crashed
  /\ gr[g].pc = "sg_read"
  /\ Continue(g, IF MapHas(gauges, gr[g].name)
                   THEN [gr[g] EXCEPT !.inst = gauges[gr[g].name],
                                      !.pc = "sg_get"]
                   ELSE [gr[g] EXCEPT !.pc = "idle"])
  /\ UNCHANGED << registry, process, spans, calls, inexact, http, background,
                  crashed >>

\* current := getGaugeValue(ctx, name), which returns lastKnownValues[name].
getGaugeValue(g) ==
  /\ ~crashed
  /\ gr[g].pc = "sg_get"
  /\ gr' = [gr EXCEPT ![g].current = MapGetOrZero(lastKnownValues, gr[g].name),
                      ![g].pc = "sg_add"]
  /\ UNCHANGED << registry, process, returned, spans, calls, inexact, http,
                  background, crashed >>

\* diff := value - current; gauge.Add(ctx, diff, ...).
GaugeAdd(g) ==
  /\ ~crashed
  /\ gr[g].pc = "sg_add"
  /\ instruments' =
       AddToSeries(Record(instruments, gr[g].inst,
                          GaugeDiff(gr[g].arg, gr[g].current)),
                   gr[g].inst, gr[g].attrs,
                   GaugeDiff(gr[g].arg, gr[g].current))
  /\ gr' = [gr EXCEPT ![g].pc = "sg_store"]
  /\ UNCHANGED << counters, histograms, gauges, lastKnownValues, process,
                  returned, spans, calls, inexact, http, background, crashed >>

\* lastKnownValues[name] = value; SetGauge returns.
GaugeStore(g) ==
  /\ ~crashed
  /\ gr[g].pc = "sg_store"
  /\ lastKnownValues' = MapPut(lastKnownValues, gr[g].name, gr[g].arg)
  /\ Continue(g, [gr[g] EXCEPT !.pc = "idle"])
  /\ UNCHANGED << counters, histograms, gauges, instruments, process, spans,
                  calls, inexact, http, background, crashed >>

\* ------------------------------------------------------- span facade
\* A call that takes no instrument name and runs in one step returns.
SpanCall(o) ==
  /\ last' = ResultOf([IdleGoroutine EXCEPT !.op = o])
  /\ prev' = last
  /\ calls' = calls + 1
  /\ UNCHANGED << registry, process, gr, inexact, http, background, crashed >>

\* StartSpan calling tracer.Start whatever the tracer is.
TracerStartUnchecked(t, s) ==
  [s EXCEPT !.ctx = "recording", !.span = "recording", !.events = 0,
            !.attrs = 0, !.ended = FALSE]

\* if tracer == nil { return ctx, nooptrace.Span{} }
\* return tracer.Start(ctx, name, opts...)
TracerStart(t, s) ==
  IF t = "nil" THEN [s EXCEPT !.span = "noop"]
  ELSE [s EXCEPT !.ctx = "recording", !.span = "recording", !.events = 0,
                 !.attrs = 0, !.ended = FALSE]

\* A span lookup that finds a recording span in every context.
IsRecordingAlways(s) == TRUE

\* trace.SpanFromContext(ctx) never returns nil: without a span in the
\* context it returns a no-op span.  Only a span of the SDK that was not
\* ended records what it is given.
IsRecording(s) == s.ctx = "recording" /\ ~s.ended

\* StartSpan: with a nil tracer the caller's context comes back unchanged
\* with a no-op span; otherwise tracer.Start puts a new span in the context.
StartSpan(g) ==
  /\ Serving
  /\ calls < MaxCalls
  /\ gr[g].pc = "idle"
  /\ spans' = [spans EXCEPT ![g] = TracerStart(tracer, spans[g])]
  /\ SpanCall("StartSpan")

\* AddEvent(ctx, ...): span.AddEvent on the span of the context.
AddEvent(g) ==
  /\ Serving
  /\ calls < MaxCalls
  /\ gr[g].pc = "idle"
  /\ spans' = IF IsRecording(spans[g])
                THEN [spans EXCEPT ![g].events = @ + 1]
                ELSE spans
  /\ SpanCall("AddEvent")

\* SetAttributes(ctx, ...): span.SetAttributes on the span of the context.
SetAttributes(g) ==
  /\ Serving
  /\ calls < MaxCalls
  /\ gr[g].pc = "idle"
  /\ spans' = IF IsRecording(spans[g])
                THEN [spans EXCEPT ![g].attrs = @ + 1]
                ELSE spans
  /\ SpanCall("SetAttributes")

\* The methods of the span object StartSpan returned, called by its caller:
\* on the no-op span they do nothing, on a span of the SDK they record
\* until the span is ended.
SpanMethod(g, o) ==
  /\ Serving
  /\ calls < MaxCalls
  /\ gr[g].pc = "idle"
  /\ spans[g].span # "none"
  /\ LET live == spans[g].span = "recording" /\ ~spans[g].ended
     IN spans' =
          IF ~live THEN spans
          ELSE CASE o = "span.AddEvent" ->
                      [spans EXCEPT ![g].events = @ + 1]
                 [] o = "span.SetAttributes" ->
                      [spans EXCEPT ![g].attrs = @ + 1]
                 [] OTHER -> [spans EXCEPT ![g].ended = TRUE]
  /\ SpanCall(o)

SpanAddEvent(g)      == SpanMethod(g, "span.AddEvent")
SpanSetAttributes(g) == SpanMethod(g, "span.SetAttributes")
SpanEnd(g)           == SpanMethod(g, "span.End")

\* ---------------------------------------------------- TraceMiddleware
\* A wrapper that starts with no status.
CrwNewZero(r) == [r EXCEPT !.statusCode = 0]

\* crw := &customResponseWriter{ResponseWriter: w, statusCode: http.StatusOK}
CrwNew(r) == [r EXCEPT !.statusCode = StatusOK]

\* WriteHeader of the underlying http.ResponseWriter (net/http): the first
\* status written is sent to the client, a later one is ignored.
UnderlyingWriteHeader(r, c) ==
  [r EXCEPT !.forwarded = Append(@, c), !.sent = IF @ = 0 THEN c ELSE @]

\* Write of the underlying http.ResponseWriter, which the wrapper inherits
\* by embedding: when no status was written yet it sends http.StatusOK first,
\* without going through the wrapper's WriteHeader.
UnderlyingWrite(r) ==
  [r EXCEPT !.forwarded = Append(@, 0),
            !.sent = IF @ = 0 THEN StatusOK ELSE @]

\* func (crw *customResponseWriter) WriteHeader(statusCode int)
WriteHeader(r, statusCode) ==
  UnderlyingWriteHeader([r EXCEPT !.statusCode = statusCode], statusCode)

\* The goroutine record at the entry of an exported function.
Entered(o, n, v) ==
  [IdleGoroutine EXCEPT !.pc = EntryPc(o), !.op = o, !.name = n, !.arg = v]

\* TraceMiddleware up to next.ServeHTTP: StartSpan, span.SetAttributes with
\* the request's attributes, the wrapper.
MwEnter(g) ==
  /\ Serving
  /\ reqs.started < MaxRequests
  /\ gr[g].pc = "idle"
  /\ req[g].stage \in {"none", "done"}
  /\ LET s == TracerStart(tracer, spans[g])
     IN spans' = [spans EXCEPT ![g] =
                    IF s.span = "recording" THEN [s EXCEPT !.attrs = @ + 1]
                    ELSE s]
  /\ req' = [req EXCEPT ![g] =
               CrwNew([NoRequest EXCEPT
                         !.stage = "handler",
                         !.trail = << "StartSpan", "next.ServeHTTP" >>])]
  /\ reqs' = [reqs EXCEPT !.started = @ + 1]
  /\ UNCHANGED << registry, process, gr, returned, calls, inexact, background,
                  crashed >>

\* The wrapped handler calls WriteHeader(c) on the writer it was given.
HandlerWriteHeader(g, c) ==
  /\ ~crashed
  /\ req[g].stage = "handler"
  /\ Len(req[g].handlerOps) < MaxWrites
  /\ req' = [req EXCEPT ![g] =
               WriteHeader([req[g] EXCEPT !.handlerOps = Append(@, c)], c)]
  /\ UNCHANGED << registry, process, gr, returned, spans, calls, inexact,
                  background, reqs, crashed >>

\* The wrapped handler calls Write on the writer it was given.
HandlerWrite(g) ==
  /\ ~crashed
  /\ req[g].stage = "handler"
  /\ Len(req[g].handlerOps) < MaxWrites
  /\ req' = [req EXCEPT ![g] =
               UnderlyingWrite([req[g] EXCEPT !.handlerOps = Append(@, 0)])]
  /\ UNCHANGED << registry, process, gr, returned, spans, calls, inexact,
                  background, reqs, crashed >>

\* next.ServeHTTP returns: span.SetAttributes(http.status_code), the labels,
\* and the call of RecordHistogram.
HandlerReturn(g) ==
  /\ ~crashed
  /\ req[g].stage = "handler"
  /\ gr[g].pc = "idle"
  /\ spans' = IF spans[g].span = "recording" /\ ~spans[g].ended
                THEN [spans EXCEPT ![g].attrs = @ + 1]
                ELSE spans
  /\ req' = [req EXCEPT ![g].stage = "hist",
                        ![g].spanStatus =
                           IF spans[g].span = "recording" /\ ~spans[g].ended
                             THEN req[g].statusCode ELSE 0,
                        ![g].labels = req[g].statusCode,
                        ![g].trail = @ \o << "status", "RecordHistogram" >>]
  /\ reqs' = [reqs EXCEPT !.handled = @ + 1]
  /\ gr' = [gr EXCEPT ![g] =
              Entered("RecordHistogram", "http_request_duration_seconds", 1)]
  /\ UNCHANGED << registry, process, returned, calls, inexact, background,
                  crashed >>

\* IncrementCounter(ctx, "http_requests_total", 1, labels...).
MwCountTotal(g) ==
  /\ ~crashed
  /\ req[g].stage = "hist"
  /\ gr[g].pc = "idle"
  /\ req' = [req EXCEPT ![g].stage = "total",
                        ![g].trail = Append(@, "http_requests_total")]
  /\ gr' = [gr EXCEPT ![g] =
              Entered("IncrementCounter", "http_requests_total", 1)]
  /\ UNCHANGED << registry, process, returned, spans, calls, inexact,
                  background, reqs, crashed >>

\* IncrementCounter(ctx, methodPathCounter, 1, ...).
MwCountRoute(g) ==
  /\ ~crashed
  /\ req[g].stage = "total"
  /\ gr[g].pc = "idle"
  /\ req' = [req EXCEPT ![g].stage = "route",
                        ![g].trail = Append(@, "methodPathCounter")]
  /\ gr' = [gr EXCEPT ![g] = Entered("IncrementCounter", DynamicName, 1)]
  /\ UNCHANGED << registry, process, returned, spans, calls, inexact,
                  background, reqs, crashed >>

\* The handler function returns; the deferred span.End() runs.
MwReturn(g) ==
  /\ ~crashed
  /\ req[g].stage = "route"
  /\ gr[g].pc = "idle"
  /\ req' = [req EXCEPT ![g].stage = "done",
                        ![g].trail = Append(@, "span.End")]
  /\ reqs' = [reqs EXCEPT !.completed = @ + 1]
  /\ spans' = IF spans[g].span = "recording"
                THEN [spans EXCEPT ![g].ended = TRUE]
                ELSE spans
  /\ UNCHANGED << registry, process, gr, returned, calls, inexact, background,
                  crashed >>

\* A panic inside RecordHistogram or IncrementCounter unwinds the handler
\* function: the deferred span.End() runs and the panic goes on to the HTTP
\* server that called the middleware.
MwPanic(g) ==
  /\ ~crashed
  /\ req[g].stage \in {"hist", "total", "route"}
  /\ gr[g].pc = "panicked"
  /\ req' = [req EXCEPT ![g].stage = "panicked",
                        ![g].trail = Append(@, "span.End")]
  /\ spans' = IF spans[g].span = "recording"
                THEN [spans EXCEPT ![g].ended = TRUE]
                ELSE spans
  /\ UNCHANGED << registry, process, gr, returned, calls, inexact, background,
                  reqs, crashed >>

\* The values a wrapped handler panics with.
PanicValues == {"runtime error", "http.ErrAbortHandler"}

\* A middleware that recovers the panic of the wrapped handler.
UnwindRecovered(r, p) ==
  [r EXCEPT !.stage = "panicked", !.raised = p,
            !.trail = Append(@, "span.End")]

\* The handler function of TraceMiddleware unwinds with the panic value p
\* of next.ServeHTTP: it has no recover, so only its deferred span.End()
\* runs and p reaches its caller.
Unwind(r, p) ==
  [r EXCEPT !.stage = "panicked", !.raised = p, !.propagated = p,
            !.trail = Append(@, "span.End")]

\* next.ServeHTTP panics with p: the statements after it are skipped.
HandlerPanic(g, p) ==
  /\ ~crashed
  /\ req[g].stage = "handler"
  /\ gr[g].pc = "idle"
  /\ req' = [req EXCEPT ![g] = Unwind(req[g], p)]
  /\ spans' = IF spans[g].span = "recording"
                THEN [spans EXCEPT ![g].ended = TRUE]
                ELSE spans
  /\ UNCHANGED << registry, process, gr, returned, calls, inexact, background,
                  reqs, crashed >>

\* What the HTTP server that called the middleware does with the response
\* (net/http): after a normal return it completes the response the
\* underlying writer holds, with http.StatusOK when no status was written;
\* after a panic it logs the panic and closes the connection without
\* completing the response.
ClientResponse(r) ==
  [status   |-> IF r.sent = 0 THEN StatusOK ELSE r.sent,
   complete |-> r.stage = "done"]

\* -------------------------------------------------- updateSystemMetrics
\* The goroutine that runs updateSystemMetrics.
SamplerGoroutine == NumGoroutines

\* The gauges of a Sampler that leaves num_cpu out.
SampledGaugesWithoutCPU ==
  << "memory_alloc_bytes", "memory_total_alloc_bytes", "memory_sys_bytes",
     "num_goroutines" >>

\* The gauges the Sampler sets, in the order of its SetGauge calls.
SampledGauges ==
  << "memory_alloc_bytes", "memory_total_alloc_bytes", "memory_sys_bytes",
     "num_goroutines", "num_cpu" >>

\* The contexts updateSystemMetrics can be run on.  InitTelemetry passes
\* context.Background(), whose Done channel is nil; a context made by
\* context.WithCancel can be cancelled by its owner.
Contexts == {"background", "cancellable"}

\* uint32 arithmetic on the GC-cycle count.
GCMod == Pow2(GCBits)

\* The difference computed on signed integers, without the wrap-around.
GcRunsSigned(s) == s.NumGC - s.lastNumGC

\* gcRuns := m.NumGC - lastNumGC
GcRuns(s) == (s.NumGC - s.lastNumGC + GCMod) % GCMod

\* go updateSystemMetrics(ctx): the goroutine starts, makes its ticker and
\* blocks in the select.
updateSystemMetrics(c) ==
  /\ Serving
  /\ samplers = 1
  /\ samp.pc = "none"
  /\ samp' = [NoSampler EXCEPT !.pc = "select", !.ctx = c,
                               !.ticker = "running"]
  /\ UNCHANGED << registry, process, gr, returned, spans, calls, inexact,
                  http, signal, teardown, route, crashed >>

\* The ticker puts a tick in its channel, which holds one tick at most;
\* late records that the context was cancelled by then.
Tick ==
  /\ ~crashed
  /\ samp.ticker = "running"
  /\ ~signal.tick
  /\ signal.ticks < MaxTicks
  /\ signal' = [signal EXCEPT !.tick = TRUE, !.late = signal.done,
                              !.ticks = @ + 1]
  /\ UNCHANGED << registry, process, gr, returned, spans, calls, inexact,
                  http, samp, teardown, route, crashed >>

\* The owner of a cancellable context cancels it: ctx.Done() is closed.
Cancel ==
  /\ ~crashed
  /\ samp.ctx = "cancellable"
  /\ ~signal.done
  /\ signal' = [signal EXCEPT !.done = TRUE]
  /\ UNCHANGED << registry, process, gr, returned, spans, calls, inexact,
                  http, samp, teardown, route, crashed >>

\* A loop that looks at ctx.Done() between the statements of the tick
\* branch as well.
ObservesCancelAnywhere(s) == s.pc \in {"select", "sampling"}

\* The Sampler looks at ctx.Done() only in the select at the top of its
\* loop.
ObservesCancel(s) == s.pc = "select"

\* case <-ctx.Done(): return, and the deferred ticker.Stop().
SamplerStop ==
  /\ ~crashed
  /\ ObservesCancel(samp)
  /\ signal.done
  /\ samp' = [samp EXCEPT !.pc = "stopped", !.ticker = "stopped"]
  /\ UNCHANGED << registry, process, gr, returned, spans, calls, inexact,
                  http, signal, teardown, route, crashed >>

\* case <-ticker.C: runtime.ReadMemStats(&m), which reads the GC-cycle
\* count n: the runtime completed fewer than 2^GCBits cycles since the
\* last reading, and its counter wraps around.  When ctx.Done() is ready
\* too, select takes either case.
SamplerTick(n) ==
  /\ ~crashed
  /\ samp.pc = "select"
  /\ signal.tick
  /\ signal' = [signal EXCEPT !.tick = FALSE]
  /\ samp' = [samp EXCEPT !.pc = "sampling", !.step = 1, !.NumGC = n,
                          !.after = IF signal.done THEN @ + 1 ELSE @,
                          !.received = @ + 1,
                          !.cycles = @ + ((n - samp.NumGC + GCMod) % GCMod)]
  /\ UNCHANGED << registry, process, gr, returned, spans, calls, inexact,
                  http, teardown, route, crashed >>

\* SetGauge(ctx, <the gauge of this step>, v): the call of the tick branch
\* the Sampler is at.
SamplerSetGauge(v) ==
  /\ ~crashed
  /\ samp.pc = "sampling"
  /\ samp.step \in 1..Len(SampledGauges)
  /\ gr[SamplerGoroutine].pc = "idle"
  /\ gr' = [gr EXCEPT ![SamplerGoroutine] =
              Entered("SetGauge", SampledGauges[samp.step], v)]
  /\ samp' = [samp EXCEPT !.step = @ + 1]
  /\ UNCHANGED << registry, process, returned, spans, calls, inexact, http,
                  signal, teardown, route, crashed >>

\* if gcRuns > 0 { IncrementCounter(ctx, "gc_runs_total", int64(gcRuns));
\* lastNumGC = m.NumGC }, and back to the select.
SamplerGC ==
  /\ ~crashed
  /\ samp.pc = "sampling"
  /\ samp.step = Len(SampledGauges) + 1
  /\ gr[SamplerGoroutine].pc = "idle"
  /\ IF GcRuns(samp) > 0
       THEN /\ gr' = [gr EXCEPT ![SamplerGoroutine] =
                        Entered("IncrementCounter", "gc_runs_total",
                                GcRuns(samp))]
            /\ samp' = [samp EXCEPT !.step = @ + 1,
                                    !.lastNumGC = samp.NumGC]
       ELSE /\ samp' = [samp EXCEPT !.pc = "select", !.step = 0]
            /\ UNCHANGED gr
  /\ UNCHANGED << registry, process, returned, spans, calls, inexact, http,
                  signal, teardown, route, crashed >>

\* IncrementCounter returned: the tick branch is over, back to the select.
SamplerRoundDone ==
  /\ ~crashed
  /\ samp.pc = "sampling"
  /\ samp.step = Len(SampledGauges) + 2
  /\ gr[SamplerGoroutine].pc = "idle"
  /\ samp' = [samp EXCEPT !.pc = "select", !.step = 0]
  /\ UNCHANGED << registry, process, gr, returned, spans, calls, inexact,
                  http, signal, teardown, route, crashed >>

\* ------------------------------------------------- per-route counter name
\* Strings are sequences of runes.  The runes of the model: two letters, a
\* digit, the filler, two other ASCII characters and one rune outside
\* ASCII, which UTF-8 encodes in two bytes.
Runes == {"a", "A", "0", "_", "/", "-", "é"}

\* The runes a request's method can hold: net/http accepts any token, and
\* "/" is no token character.
TokenRunes == {"a", "A", "0", "_", "-"}

\* (r >= 'a' && r <= 'z') || (r >= 'A' && r <= 'Z') || (r >= '0' && r <= '9')
IsAlphanumeric(r) == r \in {"a", "A", "0"}

\* The bytes of the UTF-8 encoding of r.
Width(r) == IF r = "é" THEN 2 ELSE 1

\* len(s): the bytes of s.
RECURSIVE ByteLen(_)
ByteLen(s) == IF s = << >> THEN 0 ELSE Width(Head(s)) + ByteLen(Tail(s))

\* The mapping function of sanitizePath.
SanitizeRune(r) == IF IsAlphanumeric(r) THEN r ELSE "_"

\* A sanitizePath that keeps every rune.
sanitizePathKeeping(path) == path

\* strings.Map(<mapping function>, path): the function is applied to each
\* rune of path in turn, and it drops none.
sanitizePath(path) == [i \in 1..Len(path) |-> SanitizeRune(path[i])]

LowerRune(r) == IF r = "A" THEN "a" ELSE r

\* strings.ToLower(s)
ToLower(s) == [i \in 1..Len(s) |-> LowerRune(s[i])]

\* "http_requests_"
RoutePrefix ==
  << "h", "t", "t", "p", "_", "r", "e", "q", "u", "e", "s", "t", "s", "_" >>

\* fmt.Sprintf("http_requests_%s_%s", strings.ToLower(method),
\*             sanitizePath(path))
methodPathCounter(method, path) ==
  RoutePrefix \o ToLower(method) \o << "_" >> \o sanitizePath(path)

\* Strings of at most n runes of the set rs.
StringsOver(rs, n) == UNION {[1..k -> rs] : k \in 0..n}

\* The methods and paths of requests that reach the middleware.
Methods == StringsOver(TokenRunes, MaxLen) \ {<< >>}
Paths   == StringsOver(Runes, MaxLen)

\* TraceMiddleware builds the name of the per-route counter of a request
\* with this method and path.
BuildRouteName(m, p) ==
  /\ route.counter = << >>
  /\ route' = [method |-> m, path |-> p, counter |-> methodPathCounter(m, p)]
  /\ UNCHANGED << registry, process, gr, returned, spans, calls, inexact,
                  http, samp, signal, teardown, crashed >>

NextRoute == \E m \in Methods, p \in Paths : BuildRouteName(m, p)

SpecRoute == Init /\ [][NextRoute]_vars

\* The string the runes of s spell: the key of the counters map.
RECURSIVE Spell(_)
Spell(s) == IF s = << >> THEN "" ELSE s[1] \o Spell(Tail(s))

\* methodPathCounter as a string.
RouteCounterName(m, p) == Spell(methodPathCounter(m, p))

\* The methods and paths of the requests served: one-letter methods in
\* either case, paths of MaxLen runes that differ in the first, which is
\* alphanumeric or not.
ServedMethods == {m \in Methods : Len(m) = 1 /\ m[1] \in {"a", "A"}}
ServedPaths ==
  {q \in Paths : /\ Len(q) = MaxLen
                 /\ q[1] \in {"a", "/", "_"}
                 /\ \A i \in 2..Len(q) : q[i] = "a"}

\* TraceMiddleware up to next.ServeHTTP for a request with method m and
\* path p (method := r.Method; path := r.URL.Path).  reqs.served lists the
\* requests by method and path, with the instrument each was counted on.
MwEnterRoute(g, m, p) ==
  /\ Serving
  /\ reqs.started < MaxRequests
  /\ gr[g].pc = "idle"
  /\ req[g].stage \in {"none", "done"}
  /\ LET s == TracerStart(tracer, spans[g])
     IN spans' = [spans EXCEPT ![g] =
                    IF s.span = "recording" THEN [s EXCEPT !.attrs = @ + 1]
                    ELSE s]
  /\ req' = [req EXCEPT ![g] =
               CrwNew([NoRequest EXCEPT
                         !.stage = "handler",
                         !.method = m,
                         !.path = p,
                         !.trail = << "StartSpan", "next.ServeHTTP" >>])]
  /\ reqs' = [reqs EXCEPT
               !.started = @ + 1,
               !.served = Append(@, [method |-> m, path |-> p, inst |-> 0])]
  /\ UNCHANGED << registry, process, gr, returned, calls, inexact, background,
                  crashed >>

\* IncrementCounter(ctx, methodPathCounter, 1, ...) with the name built
\* from the method and the path of the request.
MwCountRouteNamed(g) ==
  /\ ~crashed
  /\ req[g].stage = "total"
  /\ gr[g].pc = "idle"
  /\ req' = [req EXCEPT ![g].stage = "route",
                        ![g].trail = Append(@, "methodPathCounter")]
  /\ gr' = [gr EXCEPT ![g] =
              Entered("IncrementCounter",
                      RouteCounterName(req[g].method, req[g].path), 1)]
  /\ UNCHANGED << registry, process, returned, spans, calls, inexact,
                  background, reqs, crashed >>

\* The handler function returns after the IncrementCounter of the route
\* returned; the deferred span.End() runs.  The instrument counter.Add
\* was called on, if it was, is noted with the request.
MwReturnRoute(g) ==
  /\ ~crashed
  /\ req[g].stage = "route"
  /\ gr[g].pc = "idle"
  /\ req' = [req EXCEPT ![g].stage = "done",
                        ![g].trail = Append(@, "span.End")]
  /\ reqs' = [reqs EXCEPT
               !.completed = @ + 1,
               !.served[Len(reqs.served)].inst =
                  IF last.logged = "none" THEN last.inst ELSE 0]
  /\ spans' = IF spans[g].span = "recording"
                THEN [spans EXCEPT ![g].ended = TRUE]
                ELSE spans
  /\ UNCHANGED << registry, process, gr, returned, calls, inexact, background,
                  crashed >>

\* ---------------------------------------------------- shutdown closure
\* The time left to a Shutdown that gets a fresh deadline of its own.
RemainingOfOwnDeadline(d) == ShutdownTimeout

\* The time left to a Shutdown called on ctx when d seconds of its
\* deadline have gone: both providers are shut down on the one ctx of
\* context.WithTimeout(context.Background(), 5*time.Second).
Remaining(d) == ShutdownTimeout - d

\* Where the closure goes on after tp.Shutdown when it gives up on an
\* error.
AfterTracerShutdownGivingUp(ok) == IF ok THEN "meter" ELSE "returned"

\* Where the closure goes on after tp.Shutdown returned: an error is
\* logged and mp.Shutdown is called in either case.
AfterTracerShutdown(ok) == "meter"

\* A provider's Shutdown(ctx) with left seconds to the deadline of ctx
\* takes d seconds and succeeds or not.  It returns by the deadline (with
\* the context's error when it had not finished), and it cannot succeed
\* in flushing to an exporter that is not reachable.
ProviderShutdown(left, d, ok) ==
  /\ d \in 0..left
  /\ ok => teardown.reachable

\* main's deferred telemetry(): the no-op function returns at once, the
\* closure makes its context and calls tp.Shutdown(ctx).
ShutdownCall(r) ==
  /\ Serving
  /\ teardown.pc = "none"
  /\ teardown' =
       IF shutdown = "noop"
         THEN [teardown EXCEPT !.pc = "returned"]
         ELSE [teardown EXCEPT !.pc = "tracer", !.reachable = r,
                               !.invoked = << "tracer" >>]
  /\ UNCHANGED << registry, process, gr, returned, spans, calls, inexact,
                  http, samp, signal, route, crashed >>

\* if err := tp.Shutdown(ctx); err != nil { log.Printf(...) }, then the
\* call of mp.Shutdown(ctx).
TracerShutdown(d, ok) ==
  /\ ~crashed
  /\ teardown.pc = "tracer"
  /\ ProviderShutdown(Remaining(0), d, ok)
  /\ teardown' =
       [teardown EXCEPT
          !.pc = AfterTracerShutdown(ok),
          !.tpTime = d,
          !.logged = IF ok THEN @ ELSE Append(@, "tracer"),
          !.invoked = IF AfterTracerShutdown(ok) = "meter"
                        THEN Append(@, "meter") ELSE @]
  /\ UNCHANGED << registry, process, gr, returned, spans, calls, inexact,
                  http, samp, signal, route, crashed >>

\* if err := mp.Shutdown(ctx); err != nil { log.Printf(...) }, the
\* deferred cancel() and the return.
MeterShutdown(d, ok) ==
  /\ ~crashed
  /\ teardown.pc = "meter"
  /\ ProviderShutdown(Remaining(teardown.tpTime), d, ok)
  /\ teardown' =
       [teardown EXCEPT
          !.pc = "returned",
          !.mpTime = d,
          !.logged = IF ok THEN @ ELSE Append(@, "meter")]
  /\ UNCHANGED << registry, process, gr, returned, spans, calls, inexact,
                  http, samp, signal, route, crashed >>

\* --------------------------------------------- unsynchronised map access
\* The map a goroutine is inside an access of, "none" if it is in none.
AccessedMap(r) ==
  CASE r.pc = "dc_read"                -> "counters"
    [] r.pc \in {"cc_read", "cc_write"} ->
         (CASE KindOf(r.op) = "counter"   -> "counters"
            [] KindOf(r.op) = "histogram" -> "histograms"
            [] OTHER                      -> "gauges")
    [] r.pc = "rh_read"                -> "histograms"
    [] r.pc = "sg_read"                -> "gauges"
    [] r.pc \in {"sg_get", "sg_store"}  -> "lastKnownValues"
    [] OTHER                           -> "none"

\* The access is a map assignment.
IsWriting(r) == r.pc \in {"cc_write", "sg_store"}

\* One goroutine writes a map while another reads or writes the same map.
DataRace ==
  \E g, h \in Goroutines :
    /\ g # h
    /\ IsWriting(gr[g])
    /\ AccessedMap(gr[h]) = AccessedMap(gr[g])

\* The Go runtime detects some unsynchronised map accesses and stops the
\* process ("fatal error: concurrent map writes" / "concurrent map read and
\* map write"); whether it does is up to the timing.
RuntimeFatal ==
  /\ ~crashed
  /\ DataRace
  /\ crashed' = TRUE
  /\ UNCHANGED << registry, process, gr, returned, spans, calls, inexact,
                  http, background >>

\* No goroutine is inside a call.
AllIdle == \A g \in Goroutines : gr[g].pc \in {"idle", "panicked"}

\* ------------------------------------------------------ specifications
Start ==
  \E e \in BOOLEAN, f \in InitFailPoints, i \in 1..Len(metricsToCreate) :
    InitTelemetry(e, f, i)

\* The calls goroutines make: the four get-or-create functions and the three
\* recording functions, with every name of CallNames.
Call(g) ==
  \E n \in CallNames :
    \/ \E o \in CreateOps : Invoke(g, o, n, 0)
    \/ \E d \in Deltas : Invoke(g, "IncrementCounter", n, d)
    \/ Invoke(g, "RecordHistogram", n, 1)
    \/ \E v \in Values : Invoke(g, "SetGauge", n, v)

Meter(g) == \E fails \in BOOLEAN : MeterCreate(g, fails)

\* Goroutines call into the package concurrently, as the request goroutines
\* of net/http do.
Next ==
  \/ Start
  \/ \E g \in Goroutines : Call(g)
  \/ \E g \in Goroutines : StartSpan(g)
  \/ \E g \in Goroutines : AddEvent(g)
  \/ \E g \in Goroutines : SetAttributes(g)
  \/ \E g \in Goroutines : DynamicLookup(g)
  \/ \E g \in Goroutines : CreateLookup(g)
  \/ \E g \in Goroutines : Meter(g)
  \/ \E g \in Goroutines : CreateStore(g)
  \/ \E g \in Goroutines : CounterAdd(g)
  \/ \E g \in Goroutines : HistogramLookup(g)
  \/ \E g \in Goroutines : HistogramRecord(g)
  \/ \E g \in Goroutines : GaugeLookup(g)
  \/ \E g \in Goroutines : getGaugeValue(g)
  \/ \E g \in Goroutines : GaugeAdd(g)
  \/ \E g \in Goroutines : GaugeStore(g)
  \/ RuntimeFatal

Spec == Init /\ [][Next]_vars

\* The same steps with calls that do not overlap: one goroutine makes the
\* calls one after the other.
Sequential == {CHOOSE g \in Goroutines : \A h \in Goroutines : g <= h}

NextSeq ==
  \/ Start
  \/ \E g \in Sequential : Call(g)
  \/ \E g \in Sequential : StartSpan(g)
  \/ \E g \in Sequential : AddEvent(g)
  \/ \E g \in Sequential : SetAttributes(g)
  \/ \E g \in Sequential : DynamicLookup(g)
  \/ \E g \in Sequential : CreateLookup(g)
  \/ \E g \in Sequential : Meter(g)
  \/ \E g \in Sequential : CreateStore(g)
  \/ \E g \in Sequential : CounterAdd(g)
  \/ \E g \in Sequential : HistogramLookup(g)
  \/ \E g \in Sequential : HistogramRecord(g)
  \/ \E g \in Sequential : GaugeLookup(g)
  \/ \E g \in Sequential : getGaugeValue(g)
  \/ \E g \in Sequential : GaugeAdd(g)
  \/ \E g \in Sequential : GaugeStore(g)

SpecSeq == Init /\ [][NextSeq]_vars

\* The int64 values a caller passes to IncrementCounter.
SignedDeltas == (0 - MaxVal)..MaxVal

\* IncrementCounter calls that do not overlap, on a built-in and on a new
\* counter, with any int64 value.
NextCounter ==
  \/ Start
  \/ \E g \in Sequential, d \in SignedDeltas,
        n \in {"http_requests_total", DynamicName} :
       Invoke(g, "IncrementCounter", n, d)
  \/ \E g \in Sequential : DynamicLookup(g)
  \/ \E g \in Sequential : CreateLookup(g)
  \/ \E g \in Sequential : Meter(g)
  \/ \E g \in Sequential : CreateStore(g)
  \/ \E g \in Sequential : CounterAdd(g)
  \/ \E g \in Sequential : CounterAddDropped(g)

SpecCounter == Init /\ [][NextCounter]_vars

\* The attribute sets SetGauge is called with.
LabelSets == {"L1", "L2"}

\* SetGauge calls that do not overlap, on one declared gauge and with
\* attribute sets.
NextLabels ==
  \/ Start
  \/ \E g \in Sequential, v \in Values, a \in LabelSets :
       InvokeLabelled(g, "memory_alloc_bytes", v, a)
  \/ \E g \in Sequential : GaugeLookup(g)
  \/ \E g \in Sequential : getGaugeValue(g)
  \/ \E g \in Sequential : GaugeAdd(g)
  \/ \E g \in Sequential : GaugeStore(g)

SpecLabels == Init /\ [][NextLabels]_vars

\* The tracing calls alone, by every goroutine, in both modes.
NextSpan ==
  \/ Start
  \/ \E g \in Goroutines : StartSpan(g)
  \/ \E g \in Goroutines : AddEvent(g)
  \/ \E g \in Goroutines : SetAttributes(g)
  \/ \E g \in Goroutines : SpanAddEvent(g)
  \/ \E g \in Goroutines : SpanSetAttributes(g)
  \/ \E g \in Goroutines : SpanEnd(g)

SpecSpan == Init /\ [][NextSpan]_vars

\* What a wrapped handler does with its writer.
Handler(g) ==
  \/ \E c \in StatusCodes : HandlerWriteHeader(g, c)
  \/ HandlerWrite(g)
  \/ HandlerReturn(g)

\* The HTTP server: every goroutine serves requests through TraceMiddleware,
\* concurrently with the others.
NextHTTP ==
  \/ Start
  \/ \E g \in Goroutines : MwEnter(g)
  \/ \E g \in Goroutines : Handler(g)
  \/ \E g \in Goroutines : MwCountTotal(g)
  \/ \E g \in Goroutines : MwCountRoute(g)
  \/ \E g \in Goroutines : MwReturn(g)
  \/ \E g \in Goroutines : MwPanic(g)
  \/ \E g \in Goroutines : DynamicLookup(g)
  \/ \E g \in Goroutines : CreateLookup(g)
  \/ \E g \in Goroutines : Meter(g)
  \/ \E g \in Goroutines : CreateStore(g)
  \/ \E g \in Goroutines : CounterAdd(g)
  \/ \E g \in Goroutines : HistogramLookup(g)
  \/ \E g \in Goroutines : HistogramRecord(g)
  \/ RuntimeFatal

SpecHTTP == Init /\ [][NextHTTP]_vars

\* The values the Sampler reads from the runtime.
SamplerValues == 1..MaxVal

\* updateSystemMetrics alone, on either kind of context, with its ticker
\* and the owner of its context.
NextSampler ==
  \/ Start
  \/ \E c \in Contexts : updateSystemMetrics(c)
  \/ Tick
  \/ Cancel
  \/ SamplerStop
  \/ \E n \in 0..(GCMod - 1) : SamplerTick(n)
  \/ \E v \in SamplerValues : SamplerSetGauge(v)
  \/ SamplerGC
  \/ SamplerRoundDone
  \/ GaugeLookup(SamplerGoroutine)
  \/ getGaugeValue(SamplerGoroutine)
  \/ GaugeAdd(SamplerGoroutine)
  \/ GaugeStore(SamplerGoroutine)
  \/ DynamicLookup(SamplerGoroutine)
  \/ CounterAdd(SamplerGoroutine)

SpecSampler == Init /\ [][NextSampler]_vars

\* main from InitTelemetry to the return of its deferred telemetry().
Teardown ==
  \/ \E r \in BOOLEAN : ShutdownCall(r)
  \/ \E d \in 0..ShutdownTimeout, ok \in BOOLEAN : TracerShutdown(d, ok)
  \/ \E d \in 0..ShutdownTimeout, ok \in BOOLEAN : MeterShutdown(d, ok)

NextShutdown ==
  \/ Start
  \/ Teardown

SpecShutdown == Init /\ [][NextShutdown]_vars

\* A call of the shutdown function is not suspended for ever.
SpecShutdownFair == SpecShutdown /\ WF_vars(Teardown)

\* Readings of a runtime whose memory figures do not change.
SteadyValues == {1}

\* The steps of the Sampler on readings that do not change.  The case
\* <-ctx.Done() is left out: the Done channel of context.Background() is
\* nil, and a receive from a nil channel is never ready.
SteadySamplerStep ==
  \/ \E n \in 0..(GCMod - 1) : SamplerTick(n)
  \/ \E v \in SteadyValues : SamplerSetGauge(v)
  \/ SamplerGC
  \/ SamplerRoundDone
  \/ GaugeLookup(SamplerGoroutine)
  \/ getGaugeValue(SamplerGoroutine)
  \/ GaugeAdd(SamplerGoroutine)
  \/ GaugeStore(SamplerGoroutine)
  \/ DynamicLookup(SamplerGoroutine)
  \/ CounterAdd(SamplerGoroutine)

\* updateSystemMetrics alone as in SpecSampler, on readings that do not
\* change.
NextSamplerSteady ==
  \/ Start
  \/ \E c \in Contexts : updateSystemMetrics(c)
  \/ Tick
  \/ Cancel
  \/ SamplerStop
  \/ SteadySamplerStep

SpecSamplerSteady == Init /\ [][NextSamplerSteady]_vars

\* The telemetry of the process from start to exit as main wires it:
\* InitTelemetry, the Sampler on context.Background(), and main's deferred
\* call of the shutdown function.
NextLifecycle ==
  \/ Start
  \/ updateSystemMetrics("background")
  \/ Tick
  \/ SteadySamplerStep
  \/ Teardown

SpecLifecycle == Init /\ [][NextLifecycle]_vars

\* Every goroutine that can take a step eventually takes one.
SpecLifecycleFair ==
  /\ SpecLifecycle
  /\ WF_vars(updateSystemMetrics("background"))
  /\ WF_vars(SteadySamplerStep)
  /\ WF_vars(Teardown)

\* The steps of the goroutine that runs updateSystemMetrics.
SamplerStep ==
  \/ SamplerStop
  \/ \E n \in 0..(GCMod - 1) : SamplerTick(n)
  \/ \E v \in SamplerValues : SamplerSetGauge(v)
  \/ SamplerGC
  \/ SamplerRoundDone
  \/ GaugeLookup(SamplerGoroutine)
  \/ getGaugeValue(SamplerGoroutine)
  \/ GaugeAdd(SamplerGoroutine)
  \/ GaugeStore(SamplerGoroutine)
  \/ DynamicLookup(SamplerGoroutine)
  \/ CounterAdd(SamplerGoroutine)

\* The scheduler runs the Sampler's goroutine whenever it can take a step,
\* and the select, which picks among its ready cases at random, does not
\* pass over the ready ctx.Done() case for ever.
SpecSamplerFair ==
  SpecSampler /\ WF_vars(SamplerStep) /\ SF_vars(SamplerStop)

\* The HTTP server serving one request at a time.
NextHTTPSeq ==
  \/ Start
  \/ \E g \in Sequential : MwEnter(g)
  \/ \E g \in Sequential : Handler(g)
  \/ \E g \in Sequential : MwCountTotal(g)
  \/ \E g \in Sequential : MwCountRoute(g)
  \/ \E g \in Sequential : MwReturn(g)
  \/ \E g \in Sequential : MwPanic(g)
  \/ \E g \in Sequential : DynamicLookup(g)
  \/ \E g \in Sequential : CreateLookup(g)
  \/ \E g \in Sequential : Meter(g)
  \/ \E g \in Sequential : CreateStore(g)
  \/ \E g \in Sequential : CounterAdd(g)
  \/ \E g \in Sequential : HistogramLookup(g)
  \/ \E g \in Sequential : HistogramRecord(g)

SpecHTTPSeq == Init /\ [][NextHTTPSeq]_vars

\* Requests of several routes served one at a time.
NextHTTPRoutes ==
  \/ Start
  \/ \E g \in Sequential, m \in ServedMethods, p \in ServedPaths :
       MwEnterRoute(g, m, p)
  \/ \E g \in Sequential : HandlerReturn(g)
  \/ \E g \in Sequential : MwCountTotal(g)
  \/ \E g \in Sequential : MwCountRouteNamed(g)
  \/ \E g \in Sequential : MwReturnRoute(g)
  \/ \E g \in Sequential : MwPanic(g)
  \/ \E g \in Sequential : DynamicLookup(g)
  \/ \E g \in Sequential : CreateLookup(g)
  \/ \E g \in Sequential : Meter(g)
  \/ \E g \in Sequential : CreateStore(g)
  \/ \E g \in Sequential : CounterAdd(g)
  \/ \E g \in Sequential : HistogramLookup(g)
  \/ \E g \in Sequential : HistogramRecord(g)

SpecHTTPRoutes == Init /\ [][NextHTTPRoutes]_vars

\* Requests served one at a time by handlers that may panic.
NextHTTPPanic ==
  \/ NextHTTPSeq
  \/ \E g \in Sequential, p \in PanicValues : HandlerPanic(g, p)

SpecHTTPPanic == Init /\ [][NextHTTPPanic]_vars

\* ---------------------------------------------------------- properties
Enabled  == shutdown = "real"
Disabled == shutdown = "noop"

\* The instruments of kind k the meter created under name n.
InstrumentsNamed(k, n) ==
  {h \in 1..Len(instruments) :
     instruments[h].kind = k /\ instruments[h].name = n}

RECURSIVE SumOver(_)
SumOver(hs) ==
  IF hs = {} THEN 0
  ELSE LET h == CHOOSE x \in hs : TRUE
       IN instruments[h].sum + SumOver(hs \ {h})

\* What the meter's stream (k, n) holds when the SDK merges the instruments
\* that share kind and name.
StreamTotal(k, n) == SumOver(InstrumentsNamed(k, n))

\* The value of the counter the registry holds under n.
CounterValue(n) == instruments[counters[n]].sum

\* The total of the deltas applied to the accumulator of gauge n.
GaugeTotal(n) == instruments[gauges[n]].sum

\* Two results of get-or-create calls of one kind with one name.
SameInstrumentKey(a, b) ==
  /\ a.op \in CreateOps
  /\ b.op \in CreateOps
  /\ KindOf(a.op) = KindOf(b.op)
  /\ a.name = b.name

\* C1: after InitTelemetry(enabled=false), no call of StartSpan, AddEvent,
\* SetAttributes, IncrementCounter, RecordHistogram or SetGauge panics.
\* Fails: IncrementCounter reaches meter.Int64Counter on the nil meter.
C1_DisabledNeverPanics ==
  Disabled => \A g \in Goroutines : gr[g].pc # "panicked"

\* C2: concurrent first get-or-create calls of one name create exactly one
\* instrument, and all callers get that instrument.  Fails: two goroutines
\* both miss the lookup and both ask the meter.
C2_OneInstrumentPerName ==
  /\ \A k \in Kinds, n \in CallNames : Cardinality(InstrumentsNamed(k, n)) <= 1
  /\ (SameInstrumentKey(prev, last) /\ ~prev.err /\ ~last.err)
       => last.inst = prev.inst

\* C3 as stated: two non-overlapping get-or-create calls of one kind and
\* name return the identical instrument, the second returns no error, and
\* the meter is asked at most once.  Fails when the meter rejects the first
\* call: the second call asks again, and may fail too.
C3_AsStated ==
  SameInstrumentKey(prev, last) =>
    /\ ~last.err
    /\ last.inst = prev.inst
    /\ ~(prev.asked /\ last.asked)

\* C3 amended: when the first of two non-overlapping get-or-create calls of
\* one kind and name returned an instrument, the second returns that same
\* instrument, returns no error and does not ask the meter.
C3_SecondCallReturnsExisting ==
  (SameInstrumentKey(prev, last) /\ ~prev.err) =>
    /\ ~last.err
    /\ last.inst = prev.inst
    /\ last.inst # 0
    /\ ~last.asked

\* The first call created the instrument and a second call returned it.
C3_Witness ==
  /\ SameInstrumentKey(prev, last)
  /\ prev.asked
  /\ ~prev.err
  /\ last.inst = prev.inst

\* After the calls so far the deltas applied to every declared gauge sum to
\* its last known value (0 at first), and when the last call was a SetGauge
\* on a declared gauge, both are the value it set.
GaugeSumIsLastValue ==
  /\ \A n \in DOMAIN gauges :
       GaugeTotal(n) = MapGetOrZero(lastKnownValues, n)
  /\ (last.op = "SetGauge" /\ MapHas(gauges, last.name)) =>
       /\ GaugeTotal(last.name) = last.arg
       /\ MapHas(lastKnownValues, last.name)
       /\ lastKnownValues[last.name] = last.arg

\* C4 as stated: after every non-overlapping SetGauge(n, v) on a declared
\* gauge the deltas applied to n's accumulator sum to v, which is
\* lastKnownValues[n], whatever the values before.  Fails when float64
\* rounds the difference to the last value: after SetGauge(n, BigValue) and
\* SetGauge(n, 1) the deltas sum to 0.
C4_AsStated == AllIdle => GaugeSumIsLastValue

\* C4 amended: as long as every value set is an integer on which float64
\* arithmetic is exact, after every non-overlapping SetGauge(n, v) on a
\* declared gauge the deltas applied to n's accumulator sum to v, which is
\* lastKnownValues[n].
C4_ExactGaugeSumIsLastValue == (AllIdle /\ ~inexact) => GaugeSumIsLastValue

\* A gauge set to a value and then to a smaller one, which is not 0.
C4_Witness ==
  /\ AllIdle
  /\ ~inexact
  /\ prev.op = "SetGauge"
  /\ last.op = "SetGauge"
  /\ prev.name = last.name
  /\ MapHas(gauges, last.name)
  /\ prev.arg > last.arg
  /\ last.arg > 0
  /\ GaugeTotal(last.name) = last.arg

\* C5: after two concurrent SetGauge calls on one declared gauge have both
\* returned, the deltas applied sum to lastKnownValues[n], which is the value
\* of one of the two calls (the values being such that float64 is exact).
\* Fails: both read the same last value.
C5_NoLostGaugeUpdate ==
  ( /\ AllIdle
    /\ ~inexact
    /\ prev.op = "SetGauge"
    /\ last.op = "SetGauge"
    /\ prev.name = last.name
    /\ MapHas(gauges, last.name) )
  => /\ GaugeTotal(last.name) = MapGetOrZero(lastKnownValues, last.name)
     /\ MapGetOrZero(lastKnownValues, last.name) \in {prev.arg, last.arg}

\* The IncrementCounter(n, 1) calls made so far: returned or in progress.
IncrementsMade(n) ==
  Cardinality({g \in Goroutines :
                 /\ gr[g].pc # "idle"
                 /\ gr[g].op = "IncrementCounter"
                 /\ gr[g].name = n
                 /\ gr[g].arg = 1})
  + Cardinality({r \in {"last", "prev"} :
                   LET c == IF r = "last" THEN last ELSE prev
                   IN /\ c.op = "IncrementCounter"
                      /\ c.name = n
                      /\ c.arg = 1
                      /\ c.logged = "none"})

\* C6: in enabled mode T concurrent IncrementCounter(n, 1) calls leave the
\* counter n at exactly T (here T = 2, the only calls made), once every call
\* returned or the process ended.  The instruments sharing the name are
\* counted together.  Fails: the unsynchronised map access ends the process
\* before the increments are applied.
C6_NoLostIncrement ==
  \A n \in CallNames :
    ( /\ Enabled
      /\ calls = 2
      /\ IncrementsMade(n) = 2
      /\ AllIdle \/ crashed )
    => StreamTotal("counter", n) = 2

\* C7: no state has one goroutine writing an instrument map or
\* lastKnownValues while another goroutine reads or writes the same map.
\* Fails: no lock guards the maps.
C7_MapAccessExclusive == ~DataRace

\* C8: every name is bound to at most one kind.  Fails: the three maps are
\* looked up separately, so a get-or-create of another kind binds the name
\* again.
C8_OneKindPerName ==
  /\ (DOMAIN counters) \cap (DOMAIN histograms) = {}
  /\ (DOMAIN counters) \cap (DOMAIN gauges) = {}
  /\ (DOMAIN histograms) \cap (DOMAIN gauges) = {}

\* C9 as stated: in enabled mode IncrementCounter(n, d) on a name that is no
\* counter registers n and leaves the counter at d.  Fails when the meter
\* rejects the creation: nothing is registered.
C9_AsStated ==
  (Enabled /\ AllIdle /\ last.op = "IncrementCounter" /\ last.asked) =>
    /\ MapHas(counters, last.name)
    /\ CounterValue(last.name) = last.arg

\* C9 amended: in enabled mode IncrementCounter(n, d) on a name that is no
\* counter, unless the meter fails to create the counter, registers n and
\* leaves the counter at d; a later IncrementCounter on n adds to that same
\* instrument and creates no other.
C9_LazyCreation ==
  (Enabled /\ AllIdle /\ last.op = "IncrementCounter") =>
    /\ (last.asked /\ last.logged = "none") =>
         /\ MapHas(counters, last.name)
         /\ counters[last.name] = last.inst
         /\ CounterValue(last.name) = last.arg
    /\ ( /\ prev.op = "IncrementCounter"
         /\ prev.name = last.name
         /\ prev.logged = "none" ) =>
         /\ ~last.asked
         /\ last.logged = "none"
         /\ last.inst = prev.inst
         /\ counters[last.name] = prev.inst
         /\ Cardinality(InstrumentsNamed("counter", last.name)) = 1
         /\ prev.asked => CounterValue(last.name) = prev.arg + last.arg

\* A counter created by IncrementCounter and incremented again.
C9_Witness ==
  /\ Enabled
  /\ AllIdle
  /\ prev.op = "IncrementCounter"
  /\ last.op = "IncrementCounter"
  /\ prev.name = last.name
  /\ prev.asked
  /\ prev.logged = "none"
  /\ CounterValue(last.name) = prev.arg + last.arg

\* Goroutine g is in IncrementCounter and the meter returns an error to it:
\* it leaves the meter call and no instrument was created.
CreationFails(g) ==
  /\ gr[g].op = "IncrementCounter"
  /\ gr[g].pc = "cc_meter"
  /\ meter = "sdk"
  /\ gr'[g].pc # "cc_meter"
  /\ Len(instruments') = Len(instruments)

\* C10: when the creation of the counter fails inside IncrementCounter, the
\* call logs the failure and returns normally, and it changes neither the
\* maps nor any instrument: no step of the call before the failure does, and
\* the name is still no counter afterwards.
C10_FailedCreationDropsIncrement ==
  /\ [][\A g \in Goroutines :
          /\ CreationFails(g) =>
               /\ gr'[g].pc = "idle"
               /\ last'.op = "IncrementCounter"
               /\ last'.name = gr[g].name
               /\ last'.logged = "counter_create_failed"
               /\ ~last'.err
               /\ registry' = registry
          /\ ( /\ gr[g].op = "IncrementCounter"
               /\ gr[g].inst = 0
               /\ gr'[g].inst = 0 ) => registry' = registry]_vars
  /\ [](last.logged = "counter_create_failed" =>
          /\ last.op = "IncrementCounter"
          /\ last.inst = 0
          /\ AllIdle => ~MapHas(counters, last.name)
          /\ \A g \in Goroutines : gr[g].pc # "panicked")

\* An increment dropped after another one was recorded.
C10_Witness ==
  /\ AllIdle
  /\ last.op = "IncrementCounter"
  /\ last.logged = "counter_create_failed"
  /\ prev.op = "IncrementCounter"
  /\ prev.logged = "none"
  /\ MapHas(counters, prev.name)
  /\ CounterValue(prev.name) = prev.arg

\* C11: RecordHistogram(n, v) on a name that is no histogram records
\* nothing, logs the warning and leaves every map and instrument as it was;
\* n is still no histogram afterwards.
C11_UndeclaredHistogramDropped ==
  /\ [][\A g \in Goroutines :
          ( /\ gr[g].op = "RecordHistogram"
            /\ gr[g].pc = "rh_read"
            /\ ~MapHas(histograms, gr[g].name)
            /\ gr'[g] # gr[g] ) =>
          /\ gr'[g].pc = "idle"
          /\ last'.op = "RecordHistogram"
          /\ last'.name = gr[g].name
          /\ last'.logged = "histogram_not_found"
          /\ last'.inst = 0
          /\ registry' = registry]_vars
  /\ []((AllIdle /\ last.logged = "histogram_not_found") =>
          /\ last.op = "RecordHistogram"
          /\ ~MapHas(histograms, last.name)
          /\ InstrumentsNamed("histogram", last.name) = {})

\* A recording on an undeclared histogram after one on the declared one.
C11_Witness ==
  /\ AllIdle
  /\ last.op = "RecordHistogram"
  /\ last.logged = "histogram_not_found"
  /\ prev.op = "RecordHistogram"
  /\ prev.logged = "none"
  /\ prev.inst # 0
  /\ instruments[prev.inst].count = 1

\* C12: SetGauge(n, v) on a name that is no gauge logs a missing-instrument
\* warning and is dropped.  Fails: SetGauge has no else branch, nothing is
\* logged.
C12_UndeclaredGaugeWarned ==
  (last.op = "SetGauge" /\ ~MapHas(gauges, last.name)) =>
    /\ last.logged = "gauge_not_found"
    /\ last.inst = 0
    /\ ~MapHas(lastKnownValues, last.name)

\* The status codes the handler of request r passed to WriteHeader.
WrittenCodes(r) == SelectSeq(r.handlerOps, LAMBDA c : c # 0)

\* The wrapped handler of request r has returned.
HandlerReturned(r) == r.stage \in {"hist", "total", "route", "done", "panicked"}

\* Request r was recorded with status c: c is in the metric labels, and on
\* the span when the span of goroutine g records.
RecordedStatus(g, c) ==
  /\ req[g].labels = c
  /\ req[g].spanStatus = IF spans[g].span = "recording" THEN c ELSE 0

\* C13: the status recorded on the span attribute and in the metric labels
\* is 200 when the handler returned without calling WriteHeader, and c when
\* it called WriteHeader(c) exactly once.
C13_RecordedStatus ==
  \A g \in Goroutines :
    HandlerReturned(req[g]) =>
      /\ WrittenCodes(req[g]) = << >> => RecordedStatus(g, StatusOK)
      /\ Len(WrittenCodes(req[g])) = 1 =>
           RecordedStatus(g, WrittenCodes(req[g])[1])

\* In enabled mode a second request, whose handler wrote 404 once and then
\* a body, has been recorded with 404.
C13_Witness ==
  /\ Enabled
  /\ reqs.completed = 2
  /\ \E g \in Goroutines :
       /\ req[g].stage = "done"
       /\ req[g].handlerOps = << 404, 0 >>
       /\ req[g].labels = 404
       /\ req[g].spanStatus = 404

\* No request is being served.
NoRequestInFlight ==
  \A g \in Goroutines : req[g].stage \in {"none", "done", "panicked"}

\* C14: in enabled mode every request whose handler returned produced one
\* observation on http_request_duration_seconds and one increment of
\* http_requests_total: when no request is in flight any more, or the
\* process has ended, both hold as many as handlers returned.  Fails: the
\* unsynchronised access to the counters map ends the process between the
\* return of a handler and its recordings.
C14_OneRecordingPerRequest ==
  (Enabled /\ (NoRequestInFlight \/ crashed)) =>
    /\ CounterValue("http_requests_total") = reqs.handled
    /\ instruments[histograms["http_request_duration_seconds"]].count
         = reqs.handled

\* C15: the status the middleware records is the first status written, the
\* one sent to the client.  Fails: WriteHeader overwrites statusCode on
\* every call, and a Write that sends the implicit 200 is not seen.
C15_FirstStatusRecorded ==
  \A g \in Goroutines :
    HandlerReturned(req[g]) =>
      req[g].labels = ClientResponse(req[g]).status

\* C16: every WriteHeader(c) of the handler reaches the underlying writer
\* with the same code in the same order, the middleware writes nothing
\* itself, and the client receives the response the handler produced.
\* Fails: when the middleware panics after the handler returned, the
\* server closes the connection without completing the response.
C16_TransparentResponse ==
  \A g \in Goroutines :
    /\ req[g].forwarded = req[g].handlerOps
    /\ (HandlerReturned(req[g]) /\ req[g].stage \notin {"hist", "total", "route"})
         => ClientResponse(req[g]).complete

\* C17: once the wrapped handler returned, the middleware returns normally
\* in both modes: no panic of the instrumentation reaches the HTTP server.
\* Fails: in disabled mode IncrementCounter panics on the nil meter.
C17_MiddlewareNeverPanics ==
  \A g \in Goroutines : req[g].stage # "panicked"

\* InitTelemetry is called with enableTelemetry = e.
InitCall(e) ==
  \E f \in InitFailPoints, i \in 1..Len(metricsToCreate) :
    InitTelemetry(e, f, i)

\* C22: InitTelemetry with enabled=false returns the no-op shutdown
\* function and a nil error, builds no SDK provider (tracer and meter keep
\* their zero value), declares no instrument and launches no Sampler.
C22_DisabledInitIsInert ==
  /\ [][InitCall(FALSE) =>
          /\ shutdown' = "noop"
          /\ initErr' = "none"
          /\ tracer' = "nil"
          /\ meter' = "nil"
          /\ counters' = EmptyMap
          /\ histograms' = EmptyMap
          /\ gauges' = EmptyMap
          /\ instruments' = << >>
          /\ samplers' = 0]_vars
  /\ [](Disabled =>
          /\ counters = EmptyMap
          /\ histograms = EmptyMap
          /\ gauges = EmptyMap
          /\ samplers = 0)

\* A disabled InitTelemetry returned and a request has been served since.
C22_Witness ==
  /\ Disabled
  /\ initErr = "none"
  /\ counters = EmptyMap
  /\ samplers = 0
  /\ reqs.started > 0

\* The map m holds exactly the names ns, each bound to an instrument of
\* kind k and of that name.
HoldsExactly(m, insts, k, ns) ==
  /\ DOMAIN m = ns
  /\ \A n \in ns :
       /\ m[n] \in DOMAIN insts
       /\ insts[m[n]].kind = k
       /\ insts[m[n]].name = n

\* C23: an enabled InitTelemetry that returns without error leaves exactly
\* the built-in set in the registry, each instrument under its catalogued
\* kind, and has launched exactly one Sampler.
C23_BuiltInSetAndOneSampler ==
  [][(InitCall(TRUE) /\ initErr' = "none") =>
       /\ shutdown' = "real"
       /\ HoldsExactly(counters', instruments', "counter",
                       {"http_requests_total", "gc_runs_total"})
       /\ HoldsExactly(histograms', instruments', "histogram",
                       {"http_request_duration_seconds"})
       /\ HoldsExactly(gauges', instruments', "gauge",
                       {"memory_alloc_bytes", "memory_total_alloc_bytes",
                        "memory_sys_bytes", "num_goroutines", "num_cpu"})
       /\ Len(instruments') = 8
       /\ samplers' = 1]_vars

\* An enabled InitTelemetry just returned without error.
C23_Witness ==
  /\ Enabled
  /\ initErr = "none"
  /\ samplers = 1
  /\ Len(instruments) = 8
  /\ "gc_runs_total" \in DOMAIN counters
  /\ reqs.started = 0

\* C24: when a construction step of an enabled InitTelemetry fails - the
\* resource, an exporter or the creation of a built-in instrument - the
\* call returns a nil shutdown function and the error of that step, and
\* no Sampler has been launched.
C24_FailedInitReturnsError ==
  [][\A f \in InitFailPoints \ {"none"} :
       (\E i \in 1..Len(metricsToCreate) : InitTelemetry(TRUE, f, i)) =>
         /\ shutdown' = "nil"
         /\ initErr' = f
         /\ samplers' = 0]_vars
  /\ [](initErr # "none" => shutdown = "nil" /\ samplers = 0)

\* createMetrics failed at a later built-in instrument: the providers are
\* built and part of the set is declared.
C24_Witness ==
  /\ initErr = "metrics"
  /\ shutdown = "nil"
  /\ meter = "sdk"
  /\ counters # EmptyMap
  /\ samplers = 0

\* C25: a call of the shutdown routine of an enabled InitTelemetry always
\* returns and hands no error to its caller: Shutdown is invoked on the
\* tracer provider and then on the meter provider, on the second also
\* when the first failed, and a failure only adds a line to the log.
C25_ShutdownReturnsAndLogs ==
  /\ teardown.pc = "tracer" ~> teardown.pc = "returned"
  /\ [](~crashed)
  /\ []((Enabled /\ teardown.pc = "returned") =>
           teardown.invoked = << "tracer", "meter" >>)
  /\ [][(teardown.pc = "tracer" /\ teardown'.logged # teardown.logged) =>
           /\ teardown'.logged = << "tracer" >>
           /\ teardown'.pc = "meter"
           /\ teardown'.invoked = << "tracer", "meter" >>]_vars
  /\ [][(teardown.pc = "meter" /\ teardown'.logged # teardown.logged) =>
           /\ teardown'.logged = Append(teardown.logged, "meter")
           /\ teardown'.pc = "returned"]_vars

\* The tracer provider's Shutdown failed, the meter provider's was called
\* and succeeded, and the routine returned.
C25_Witness ==
  /\ Enabled
  /\ teardown.pc = "returned"
  /\ teardown.invoked = << "tracer", "meter" >>
  /\ teardown.logged = << "tracer" >>

\* C26: with the exporters unreachable a call of the shutdown routine
\* returns within the 5 seconds of its one deadline, which both provider
\* shutdowns share, and the error is logged, not propagated.
C26_ShutdownWithinDeadline ==
  /\ (teardown.pc = "tracer" /\ ~teardown.reachable)
       ~> teardown.pc = "returned"
  /\ [](teardown.tpTime + teardown.mpTime <= ShutdownTimeout)
  /\ []((teardown.pc = "returned" /\ ~teardown.reachable) =>
           /\ teardown.logged # << >>
           /\ ~crashed)

\* Unreachable exporters: tp.Shutdown ran into the deadline, mp.Shutdown
\* returned at once on the expired context, both errors are in the log.
C26_Witness ==
  /\ teardown.pc = "returned"
  /\ ~teardown.reachable
  /\ teardown.tpTime = ShutdownTimeout
  /\ teardown.mpTime = 0
  /\ teardown.logged = << "tracer", "meter" >>

\* The part of a per-route counter name after the prefix.
AfterPrefix(name) == SubSeq(name, Len(RoutePrefix) + 1, Len(name))

\* C27: the per-route counter of a request is named
\* http_requests_<method>_<sanitized_path>, the method lowercased and every
\* non-alphanumeric character of method and path replaced by "_", so that
\* the name after the prefix holds only ASCII letters, digits and "_";
\* sanitizePath keeps the alphanumeric characters and the length of its
\* input.  Fails: the method is lowercased but not sanitized.
C27_RouteCounterName ==
  route.counter # << >> =>
    /\ SubSeq(route.counter, 1, Len(RoutePrefix)) = RoutePrefix
    /\ \A i \in DOMAIN AfterPrefix(route.counter) :
         \/ IsAlphanumeric(AfterPrefix(route.counter)[i])
         \/ AfterPrefix(route.counter)[i] = "_"
    /\ Len(sanitizePath(route.path)) = Len(route.path)
    /\ \A i \in DOMAIN route.path :
         IsAlphanumeric(route.path[i]) =>
           sanitizePath(route.path)[i] = route.path[i]

\* The calls TraceMiddleware makes for one request, in order.
MiddlewareOrder ==
  << "StartSpan", "next.ServeHTTP", "status", "RecordHistogram",
     "http_requests_total", "methodPathCounter", "span.End" >>

\* C28: for each request the middleware starts the span, invokes the
\* wrapped handler once, and after its return attaches the status to the
\* span, records the duration histogram and the two request counters and
\* then ends the span; the span is ended once and takes no attribute or
\* event after its end.  Fails with telemetry disabled: the panic of
\* IncrementCounter ends the span before the counters are recorded.
C28_MiddlewareOrder ==
  /\ [](\A g \in Goroutines :
          /\ Len(req[g].trail) <= Len(MiddlewareOrder)
          /\ req[g].trail = SubSeq(MiddlewareOrder, 1, Len(req[g].trail)))
  /\ [][\A g \in Goroutines :
          (spans[g].ended /\ spans'[g].ended) =>
             /\ spans'[g].attrs = spans[g].attrs
             /\ spans'[g].events = spans[g].events]_vars

\* C29: the Sampler is started on a context that the owner of the
\* telemetry can cancel, and once the shutdown routine has been invoked and
\* returned the Sampler eventually stops.  Fails: InitTelemetry starts it
\* on context.Background() and the shutdown closure does not reach it.
C29_ShutdownStopsSampler ==
  /\ [](samp.pc # "none" => samp.ctx = "cancellable")
  /\ (Enabled /\ teardown.pc = "returned") ~> samp.pc = "stopped"

\* The Sampler's states: Idle is blocked in the select, Sampling is in the
\* tick branch, Stopped has returned.
Idle     == samp.pc = "select"
Sampling == samp.pc = "sampling"
Stopped  == samp.pc = "stopped"

\* The calls of the tick branch made so far in this sample: five SetGauge
\* calls, then the GC counter step.
SampleComplete ==
  /\ gr[SamplerGoroutine].pc = "idle"
  /\ \/ samp.step = Len(SampledGauges) + 2
     \/ samp.step = Len(SampledGauges) + 1 /\ GcRuns(samp) = 0

\* C30: the Sampler only goes from Idle to Sampling on a tick, from
\* Sampling to Idle when the sample is published, and from Idle to Stopped
\* on cancellation; Stopped is terminal, Sampling never goes to Stopped,
\* and a sample in progress is completed - five gauges and the GC counter
\* step - before the cancellation is observed.
C30_SamplerStateMachine ==
  /\ [][(samp.pc # "none" /\ samp'.pc # samp.pc) =>
           \/ Idle /\ signal.tick /\ ~signal'.tick /\ samp'.pc = "sampling"
           \/ Sampling /\ SampleComplete /\ samp'.pc = "select"
           \/ Idle /\ signal.done /\ samp'.pc = "stopped"]_vars
  /\ [][Stopped => (samp' = samp /\ registry' = registry)]_vars
  /\ [][(Sampling /\ signal.done) => samp'.pc \in {"sampling", "select"}]_vars

\* The context was cancelled during a sample (its tick was received
\* before the cancellation), and the sample has been completed: the five
\* gauges are set and the GC counter is incremented.
C30_Witness ==
  /\ Sampling
  /\ signal.done
  /\ samp.after = 0
  /\ SampleComplete
  /\ DOMAIN lastKnownValues =
       {SampledGauges[i] : i \in 1..Len(SampledGauges)}
  /\ CounterValue("gc_runs_total") > 0

\* The Sampler enters IncrementCounter.
SamplerIncrements ==
  /\ gr[SamplerGoroutine].pc = "idle"
  /\ gr'[SamplerGoroutine].op = "IncrementCounter"
  /\ gr'[SamplerGoroutine].pc # "idle"

\* Between two samples: every tick received so far set each of the five
\* gauges once.
EachGaugeSetOncePerTick ==
  (samp.received > 0 /\ (Idle \/ Stopped)) =>
    /\ DOMAIN lastKnownValues =
         {"memory_alloc_bytes", "memory_total_alloc_bytes",
          "memory_sys_bytes", "num_goroutines", "num_cpu"}
    /\ \A n \in DOMAIN lastKnownValues :
         instruments[gauges[n]].count = samp.received

\* Every delta the Sampler passes is the number of GC cycles since the
\* previous tick and is strictly positive; a step of 0 is skipped.
GcDeltasPositive ==
  /\ [][SamplerIncrements =>
           /\ gr'[SamplerGoroutine].name = "gc_runs_total"
           /\ gr'[SamplerGoroutine].arg > 0
           /\ gr'[SamplerGoroutine].arg = samp.NumGC - samp.lastNumGC
                                            + (IF samp.NumGC < samp.lastNumGC
                                                 THEN GCMod ELSE 0)]_vars
  /\ [][(Sampling /\ samp.step = Len(SampledGauges) + 1
           /\ samp.NumGC = samp.lastNumGC) => ~SamplerIncrements]_vars

\* C31 as stated: after any number of ticks the sum of the deltas given to
\* gc_runs_total equals the GC-cycle count read at the latest tick.
C31_AsStated ==
  [](((Idle \/ Stopped) /\ Enabled) =>
        CounterValue("gc_runs_total") = samp.NumGC)

\* C31: on every tick the Sampler sets each of the five gauges once and
\* increments gc_runs_total by the number of GC cycles completed since the
\* previous tick, skipping a step of 0; every delta is strictly positive,
\* and the sum of the deltas is the number of cycles completed, which is
\* the count read at the latest tick modulo 2^32 only.
C31_SamplePerTick ==
  /\ []EachGaugeSetOncePerTick
  /\ GcDeltasPositive
  /\ [](((Idle \/ Stopped) /\ Enabled) =>
          /\ CounterValue("gc_runs_total") = samp.cycles
          /\ CounterValue("gc_runs_total") % GCMod = samp.NumGC)

\* Two ticks were sampled and the runtime's count wrapped around between
\* them.
C31_Witness ==
  /\ Idle
  /\ samp.received = 2
  /\ samp.cycles > samp.NumGC
  /\ CounterValue("gc_runs_total") = samp.cycles

\* Every name bound in the map m is bound to the same instrument in n.
BindingsKept(m, n) ==
  \A k \in DOMAIN m : k \in DOMAIN n /\ n[k] = m[k]

\* C32: a name once bound to an instrument in the counters, histograms or
\* gauges map stays bound to that instrument in every later state, under
\* any interleaving of the operations.  Fails: two goroutines that both
\* miss a name both create an instrument, and the second store replaces
\* the binding of the first.
C32_BindingsNeverReplaced ==
  [][/\ BindingsKept(counters, counters')
     /\ BindingsKept(histograms, histograms')
     /\ BindingsKept(gauges, gauges')]_vars

\* The sum of the values in the map m of numbers.
RECURSIVE MapTotal(_)
MapTotal(m) ==
  IF DOMAIN m = {} THEN 0
  ELSE LET k == CHOOSE x \in DOMAIN m : TRUE
       IN m[k] + MapTotal([x \in DOMAIN m \ {k} |-> m[x]])

\* The series of gauge n by attribute set, and their sum.
GaugeSeries(n) == instruments[gauges[n]].series
SeriesTotal(n) == MapTotal(GaugeSeries(n))

\* The last-known value is kept per gauge name: a SetGauge adds the
\* difference of its value to the value last set under any attribute set
\* to the series of its own attribute set, so after every call the series
\* of the gauge sum to the value set; the second of two calls with
\* different attribute sets leaves the difference of the two values in the
\* series of its attribute set.
OneLastValuePerName ==
  /\ \A n \in DOMAIN gauges :
       SeriesTotal(n) = MapGetOrZero(lastKnownValues, n)
  /\ (last.op = "SetGauge" /\ MapHas(gauges, last.name)) =>
       /\ SeriesTotal(last.name) = last.arg
       /\ MapHas(GaugeSeries(last.name), last.attrs)
       /\ DOMAIN GaugeSeries(last.name) \subseteq LabelSets
       /\ (/\ prev.op = "SetGauge"
           /\ prev.name = last.name
           /\ prev.attrs # last.attrs
           /\ Cardinality(DOMAIN GaugeSeries(last.name)) = 2
           /\ instruments[gauges[last.name]].count = 2) =>
            /\ GaugeSeries(last.name)[prev.attrs] = prev.arg
            /\ GaugeSeries(last.name)[last.attrs] = last.arg - prev.arg

\* C33 as stated: after SetGauge calls with attribute sets the series of
\* all attribute sets of a gauge sum to the value last set, whatever the
\* values.  Fails when float64 rounds the difference.
C33_AsStated == AllIdle => OneLastValuePerName

\* C33: SetGauge keeps one last-known value per gauge name, not per
\* attribute set: as long as float64 arithmetic on the values is exact,
\* after non-overlapping calls the series of all attribute sets of a gauge
\* sum to the value last set, while the series of one attribute set can
\* differ from the value last set under it.
C33_OneLastValuePerName == (AllIdle /\ ~inexact) => OneLastValuePerName

\* SetGauge(n, u, L1) was followed by SetGauge(n, v, L2): the series of L2
\* holds v - u, not v, and the two series sum to v.
C33_Witness ==
  /\ AllIdle
  /\ ~inexact
  /\ prev.op = "SetGauge"
  /\ last.op = "SetGauge"
  /\ prev.name = last.name
  /\ MapHas(gauges, last.name)
  /\ prev.attrs # last.attrs
  /\ prev.arg > 0
  /\ GaugeSeries(last.name)[last.attrs] = last.arg - prev.arg
  /\ GaugeSeries(last.name)[last.attrs] # last.arg
  /\ SeriesTotal(last.name) = last.arg

\* The request of goroutine g ended by a panic of the wrapped handler.
HandlerPanicked(r) == r.raised # "none"

\* What is left of a request whose handler panicked: of the calls of the
\* middleware only StartSpan, next.ServeHTTP and one span.End were made, no
\* status was attached to the span, and the caller got the panic value.
PanickedRequestLeft ==
  \A g \in Goroutines :
    HandlerPanicked(req[g]) =>
      /\ req[g].stage = "panicked"
      /\ req[g].trail = << "StartSpan", "next.ServeHTTP", "span.End" >>
      /\ Cardinality({i \in DOMAIN req[g].trail :
                        req[g].trail[i] = "span.End"}) = 1
      /\ spans[g].span = "recording" => spans[g].ended
      /\ req[g].spanStatus = 0
      /\ req[g].labels = 0
      /\ req[g].propagated = req[g].raised
      /\ gr[g].pc = "idle"

\* The step in which the handler of goroutine g panics, and any later step
\* of a request that ended so, records nothing and adds no attribute.
PanicRecordsNothing ==
  \A g \in Sequential :
    HandlerPanicked(req'[g]) =>
      /\ instruments' = instruments
      /\ counters' = counters
      /\ spans'[g].attrs = spans[g].attrs
      /\ reqs'.handled = reqs.handled
      /\ gr'[g] = gr[g]

\* C34: when the wrapped handler panics inside TraceMiddleware the span is
\* still ended exactly once by the deferred End, no status attribute is
\* attached, neither the histogram nor a counter is recorded for the
\* request, and the panic reaches the caller unchanged.
C34_HandlerPanic == [](PanickedRequestLeft) /\ [][PanicRecordsNothing]_vars

\* The handler of a request panicked after it had written a status, with
\* telemetry enabled.
C34_Witness ==
  /\ tracer = "sdk"
  /\ \E g \in Sequential :
       /\ HandlerPanicked(req[g])
       /\ req[g].handlerOps # << >>
       /\ req[g].statusCode # StatusOK
       /\ spans[g].ended
       /\ req[g].propagated = "http.ErrAbortHandler"

\* No step lowers the accumulated value of a counter.
CountersNeverDecrease ==
  \A h \in DOMAIN instruments :
    instruments[h].kind = "counter" =>
      instruments'[h].sum >= instruments[h].sum

\* C35: every counter is a monotonic accumulator: across any sequence of
\* IncrementCounter calls, with any value a caller passes (zero and
\* negative ones included), the accumulated value of a counter never
\* decreases.  Fails: IncrementCounter hands a negative value to
\* counter.Add as it is.
C35_CountersMonotonic == [][CountersNeverDecrease]_vars

\* The names of the per-route counters of the requests served.
ServedRouteNames ==
  {RouteCounterName(reqs.served[i].method, reqs.served[i].path) :
     i \in DOMAIN reqs.served}

\* Once the requests are over, each of their per-route counters is in the
\* counters map, beside the built-in ones.
RouteCountersLeft ==
  (NoRequestInFlight /\ AllIdle) =>
    /\ ServedRouteNames \subseteq DOMAIN counters
    /\ Cardinality(DOMAIN counters) >= Cardinality(ServedRouteNames)

\* No step removes a name from the counters map.
CountersKept == DOMAIN counters \subseteq DOMAIN counters'

\* C36: the set of dynamically created counter names is unbounded: k
\* requests whose lowercased method and sanitized path are pairwise
\* distinct leave k distinct per-route counters in the counters map, and
\* no operation removes an entry or caps the number of names.  Fails: with
\* telemetry disabled the request panics before its per-route counter is
\* created.
C36_RouteCountersUnbounded == [](RouteCountersLeft) /\ [][CountersKept]_vars

\* Paths p and q differ only in non-alphanumeric characters.
SameUpToFiller(p, q) ==
  /\ Len(p) = Len(q)
  /\ \A i \in 1..Len(p) :
       \/ p[i] = q[i]
       \/ ~IsAlphanumeric(p[i]) /\ ~IsAlphanumeric(q[i])

\* Requests r and s are of one route: the same method up to case and
\* paths that differ only in non-alphanumeric characters.
SameRoute(r, s) ==
  ToLower(r.method) = ToLower(s.method) /\ SameUpToFiller(r.path, s.path)

\* The requests that were counted on a per-route counter.
Counted == {i \in DOMAIN reqs.served : reqs.served[i].inst # 0}

\* sanitizePath applied twice gives what it gives applied once, and some
\* two paths have one image.
SanitizeIdempotentNotInjective ==
  /\ \A q \in Paths : sanitizePath(sanitizePath(q)) = sanitizePath(q)
  /\ \E q, r \in Paths : q # r /\ sanitizePath(q) = sanitizePath(r)
  /\ \A q, r \in Paths :
       SameUpToFiller(q, r) <=> sanitizePath(q) = sanitizePath(r)

\* The requests of one route that were counted were counted on the one
\* counter bound to their name, which holds as many as they are.
OneCounterPerRoute ==
  (NoRequestInFlight /\ AllIdle) =>
    \A i \in Counted :
      LET r == reqs.served[i]
          n == RouteCounterName(r.method, r.path)
      IN /\ MapHas(counters, n)
         /\ counters[n] = r.inst
         /\ \A j \in Counted :
              SameRoute(r, reqs.served[j]) => reqs.served[j].inst = r.inst
         /\ instruments[r.inst].sum =
              Cardinality({j \in Counted : SameRoute(r, reqs.served[j])})

SamplerAtGcStep ==
  /\ Sampling
  /\ samp.step = Len(SampledGauges) + 1
  /\ samp'.step # samp.step

\* The cycles the runtime completed since the Sampler last incremented
\* gc_runs_total, at a reading: the counter holds the cycles completed up
\* to its last increment.
CyclesSinceLastIncrement == samp.cycles - CounterValue("gc_runs_total")

\* The count read is below the one stored: the runtime's counter wrapped
\* around between the two readings.
WrappedAround == samp.NumGC < samp.lastNumGC

\* gcRuns is the difference modulo 2^GCBits, never negative; the step
\* increments by the cycles completed, also when the count wrapped around,
\* and only an increment stores lastNumGC.
UnsignedGcDelta ==
  /\ [](GcRuns(samp) \in 0..(GCMod - 1))
  /\ [][SamplerAtGcStep =>
           IF samp.NumGC # samp.lastNumGC
             THEN /\ SamplerIncrements
                  /\ gr'[SamplerGoroutine].arg = CyclesSinceLastIncrement
                  /\ gr'[SamplerGoroutine].arg \in 1..(GCMod - 1)
                  /\ WrappedAround =>
                       gr'[SamplerGoroutine].arg =
                         samp.NumGC + GCMod - samp.lastNumGC
                  /\ samp'.lastNumGC = samp.NumGC
             ELSE /\ ~SamplerIncrements
                  /\ CyclesSinceLastIncrement = 0]_vars
  /\ [][samp'.lastNumGC # samp.lastNumGC =>
           (SamplerAtGcStep /\ GcRuns(samp) > 0) \/ samp.pc = "none"]_vars

\* C38: the Sampler computes the GC delta in unsigned arithmetic of the
\* width of the runtime's count, gcRuns = (NumGC - lastNumGC) mod 2^32, and
\* stores lastNumGC = NumGC only when gcRuns > 0: when the count wraps
\* around between two ticks the increment of gc_runs_total is still the
\* number of cycles completed (below 2^32), never a negative one.
C38_UnsignedGcDelta == UnsignedGcDelta

\* The Sampler has just called IncrementCounter at a tick where the count
\* it read had wrapped around.
C38_Witness ==
  /\ Sampling
  /\ samp.step = Len(SampledGauges) + 2
  /\ gr[SamplerGoroutine].op = "IncrementCounter"
  /\ gr[SamplerGoroutine].pc # "idle"
  /\ gr[SamplerGoroutine].arg > samp.NumGC
  /\ samp.lastNumGC = samp.NumGC
  /\ samp.cycles >= GCMod
  /\ CounterValue("gc_runs_total") + gr[SamplerGoroutine].arg = samp.cycles

SpanStep == calls' = calls + 1 /\ last'.name = "" /\ last'.op # "none"

\* C18: in disabled mode StartSpan returns the caller's context unchanged
\* together with a no-op span, and SetAttributes, AddEvent and End on that
\* span change no state; no call panics.
C18_DisabledSpansAreNoOps ==
  /\ [][(Disabled /\ SpanStep) =>
          /\ \A g \in Goroutines :
               /\ spans'[g].ctx = spans[g].ctx
               /\ spans'[g].events = spans[g].events
               /\ spans'[g].attrs = spans[g].attrs
               /\ spans'[g].ended = spans[g].ended
               /\ spans'[g].span # spans[g].span =>
                    /\ last'.op = "StartSpan"
                    /\ spans'[g].span = "noop"
          /\ last'.op = "StartSpan" =>
               \E g \in Goroutines : StartSpan(g) /\ spans'[g].span = "noop"
          /\ last'.op # "StartSpan" => spans' = spans
          /\ registry' = registry
          /\ process' = process
          /\ gr' = gr]_vars
  /\ [](Disabled =>
          \A g \in Goroutines :
            /\ gr[g].pc # "panicked"
            /\ spans[g].ctx = "none"
            /\ spans[g].span \in {"none", "noop"}
            /\ spans[g].events = 0
            /\ spans[g].attrs = 0
            /\ ~spans[g].ended)

\* In disabled mode a span was started and then ended.
C18_Witness ==
  /\ Disabled
  /\ prev.op = "StartSpan"
  /\ last.op = "span.End"
  /\ \E g \in Goroutines : spans[g].span = "noop"

\* C19: AddEvent and SetAttributes called with a context that carries no
\* active span return normally and record nothing: no span gains an event or
\* an attribute.
C19_NoActiveSpanIsNoOp ==
  [][\A g \in Goroutines :
       ( /\ AddEvent(g) \/ SetAttributes(g)
         /\ spans[g].ctx = "none" \/ spans[g].ended ) =>
       /\ spans' = spans
       /\ last'.op \in {"AddEvent", "SetAttributes"}
       /\ ~last'.err
       /\ gr'[g].pc = "idle"
       /\ registry' = registry]_vars

\* In enabled mode one goroutine's span has an event while a goroutine
\* without a span has just called AddEvent.
C19_Witness ==
  /\ Enabled
  /\ last.op = "AddEvent"
  /\ \E g, h \in Goroutines :
       /\ spans[g].ctx = "none"
       /\ spans[h].events = 1
  /\ prev.op = "AddEvent"
====
